---- MODULE Spec2Model ----
(***************************************************************************)
(* Verification model of the stract web-graph query core:                  *)
(*   - dijkstra_multi (crates/core/src/webgraph/shortest_path.rs)          *)
(*   - the link queries' filter_fruit_shards / retrieve / merge_results    *)
(*     (crates/core/src/webgraph/query/{backlink,forwardlink}.rs)          *)
(***************************************************************************)
EXTENDS Integers, Sequences, FiniteSets, TLC

VARIABLES
    \* ---- shortest path (dijkstra_multi) ----
    graph,      \* the link graph: a set of <<from, to>> node pairs
    sources,    \* sources: &[NodeID]
    max_dist,   \* Option<u8>: <<>> is None, <<m>> is Some(m)
    distances,  \* BTreeMap<NodeID, u8>: a function on the recorded nodes
    queue,      \* BinaryHeap<Reverse<(u8, NodeID)>>: kept as an ascending sequence
    pc,         \* position of the call: "start", "loop", "done"
    pops,       \* history: the entries popped so far, each with what the loop did
    failing,    \* the nodes whose link query returns Err in this run
    \* ---- link queries: filter_fruit_shards and merge_results ----
    op,           \* which function the run applies: "filter" or "merge"
    query,        \* the query value: granularity, small/full, EdgeLimit
    fruit,        \* a merged fruit: Vec<(f64, doc)>
    shard_fruits, \* shard id -> filter_fruit_shards(shard id, fruit), once called
    results,      \* Vec<IntermediateOutput>, the argument of merge_results
    output,       \* <<>> before the call, <<Output>> after merge_results returned
    \* ---- link queries: the search of one query over the shards ----
    index,        \* shard id -> segment ordinal -> the matching edge documents
    local_fruits, \* shard id -> the fruit of the shard's local collection
    stage,        \* "collect", "retrieve", "merge", "done"
    \* ---- column and inverted-index readers ----
    columns,      \* segment_ord -> the fields the segment holds a column for
                  \* (<<>> while every segment holds every column)
    opened,       \* history: the segment ordinals whose column accessors were opened
    cache,        \* SegmentReader::inv_idx_reader_cache: field -> the reader held
    threads       \* thread -> its position in inverted_index(field) and its locals

dvars == <<graph, sources, max_dist, distances, queue, pc, pops, failing>>

fvars == <<op, query, fruit, shard_fruits, results, output>>

pvars == <<index, local_fruits, stage>>

lvars == <<fvars, pvars>>

nvars == <<columns, opened, cache, threads>>

vars == <<dvars, lvars, nvars>>

----------------------------------------------------------------------------
\* Bounds of the model.

NumNodes == 3

MaxEdges == 3

MaxMaxDist == 2

\* Entries of a fruit, and edges over all the inputs of merge_results.
MaxItems == 3

\* Matching edge documents in the index of a search.
MaxDocs == 5

MaxPageDocs == 3

\* The largest limit and offset of an EdgeLimit a link query is built with.
MaxLimit == 3

\* Edge documents in the index of a group-by query.
MaxGroupDocs == 3

\* Nodes and edges of the graphs on which termination is checked.
TermNodes == 2

TermEdges == 3

\* The longest chain of nodes has U8_MAX + ChainExtra nodes.
ChainExtra == 2

----------------------------------------------------------------------------
\* Program constants.

U8_MAX == 255

----------------------------------------------------------------------------
\* Generic helpers.

Nodes == 1..NumNodes

Min(S) == CHOOSE x \in S : \A y \in S : x <= y

RECURSIVE SetToSeq(_)
SetToSeq(S) ==
    IF S = {} THEN <<>> ELSE LET m == Min(S) IN <<m>> \o SetToSeq(S \ {m})

SeqsUpTo(S, lo, hi) == UNION {[1..n -> S] : n \in lo..hi}

RECURSIVE SumSeq(_)
SumSeq(s) == IF s = <<>> THEN 0 ELSE Head(s) + SumSeq(Tail(s))

PermutationsOf(n) == {p \in [1..n -> 1..n] : \A i, j \in 1..n : p[i] = p[j] => i = j}

Range(s) == {s[i] : i \in DOMAIN s}

----------------------------------------------------------------------------
\* dijkstra_multi

\* u8 addition (wrapping, as in a release build).
AddU8(a, b) == (a + b) % (U8_MAX + 1)

GetDist_DefaultZero(d, n) == IF n \in DOMAIN d THEN d[n] ELSE 0

\* distances.get(&n).unwrap_or(&u8::MAX)
GetDist(d, n) == IF n \in DOMAIN d THEN d[n] ELSE U8_MAX

\* distances.insert(n, v)
InsertDist(d, n, v) == [x \in (DOMAIN d) \cup {n} |-> IF x = n THEN v ELSE d[x]]

\* Ord of (u8, NodeID) tuples.
TupleLess(a, b) == a[1] < b[1] \/ (a[1] = b[1] /\ a[2] < b[2])

\* queue.push(cmp::Reverse(x)): the heap's content, kept in pop order.
RECURSIVE HeapPush(_, _)
HeapPush(q, x) ==
    IF q = <<>> THEN <<x>>
    ELSE IF TupleLess(x, Head(q)) THEN <<x>> \o q
    ELSE <<Head(q)>> \o HeapPush(Tail(q), x)

\* The closures passed by Webgraph::raw_distances: the forward links of a node
\* (an unlimited ForwardlinksQuery), in the order the query returns them.
node_edges(g, v) == SetToSeq({e[2] : e \in {e \in g : e[1] = v}})

\* self.search(&query::ForwardlinksQuery::new(node).with_limit(Unlimited)):
\* Err for a node whose query fails, else Ok with the links of the node.
search_NeverErr(g, f, v) == [ok |-> TRUE, edges |-> node_edges(g, v)]

search(g, f, v) == IF v \in f THEN [ok |-> FALSE] ELSE [ok |-> TRUE, edges |-> node_edges(g, v)]

\* Result::unwrap_or_default: the empty Vec for Err.
unwrap_or_default(r) == IF r.ok THEN r.edges ELSE <<>>

\* for source_id in sources { queue.push((0, source_id)); distances.insert(source_id, 0) }
RECURSIVE PushSourcesFrom(_, _, _)
PushSourcesFrom(srcs, q, d) ==
    IF srcs = <<>> THEN <<q, d>>
    ELSE PushSourcesFrom(Tail(srcs), HeapPush(q, <<0, Head(srcs)>>),
                         InsertDist(d, Head(srcs), 0))

RECURSIVE RelaxEdges_NoCompare(_, _, _, _)
RelaxEdges_NoCompare(es, cost, q, d) ==
    IF es = <<>> THEN <<q, d>>
    ELSE RelaxEdges_NoCompare(Tail(es), cost,
                              HeapPush(q, <<AddU8(cost, 1), Head(es)>>),
                              InsertDist(d, Head(es), AddU8(cost, 1)))

RECURSIVE RelaxEdges_LessEq(_, _, _, _)
RelaxEdges_LessEq(es, cost, q, d) ==
    IF es = <<>> THEN <<q, d>>
    ELSE LET n == Head(es) IN
         IF AddU8(cost, 1) <= GetDist(d, n)
         THEN RelaxEdges_LessEq(Tail(es), cost,
                                HeapPush(q, <<AddU8(cost, 1), n>>),
                                InsertDist(d, n, AddU8(cost, 1)))
         ELSE RelaxEdges_LessEq(Tail(es), cost, q, d)

\* for edge in node_edges(v) { if cost + 1 < dist(edge_node) { push; insert } }
RECURSIVE RelaxEdges(_, _, _, _)
RelaxEdges(es, cost, q, d) ==
    IF es = <<>> THEN <<q, d>>
    ELSE LET n == Head(es) IN
         IF AddU8(cost, 1) < GetDist(d, n)
         THEN RelaxEdges(Tail(es), cost,
                         HeapPush(q, <<AddU8(cost, 1), n>>),
                         InsertDist(d, n, AddU8(cost, 1)))
         ELSE RelaxEdges(Tail(es), cost, q, d)

Graphs == {g \in SUBSET (Nodes \X Nodes) : Cardinality(g) <= MaxEdges}

\* No column accessor opened, no inverted-index reader cached, no thread.
ReadersIdle ==
    /\ columns = <<>>
    /\ opened = <<>>
    /\ cache = <<>>
    /\ threads = <<>>

\* The link-query variables while a shortest-path run is modelled.
LinksIdle ==
    /\ op = "none"
    /\ query = <<>>
    /\ fruit = <<>>
    /\ shard_fruits = <<>>
    /\ results = <<>>
    /\ output = <<>>
    /\ index = <<>>
    /\ local_fruits = <<>>
    /\ stage = "none"

Init ==
    /\ LinksIdle
    /\ ReadersIdle
    /\ graph \in Graphs
    /\ sources \in SeqsUpTo(Nodes, 1, 2)
    /\ max_dist \in {<<>>} \cup {<<m>> : m \in 0..MaxMaxDist}
    /\ distances = <<>>
    /\ queue = <<>>
    /\ pc = "start"
    /\ pops = <<>>
    /\ failing = {}

\* Lines 67-74: the empty map and heap, then the sources.
PushSources ==
    /\ pc = "start"
    /\ LET r == PushSourcesFrom(sources, <<>>, <<>>) IN
         /\ queue' = r[1]
         /\ distances' = r[2]
    /\ pc' = "loop"
    /\ UNCHANGED <<graph, sources, max_dist, pops, failing>>
    /\ UNCHANGED <<lvars, nvars>>

\* if let Some(max_dist) = max_dist { if cost > max_dist { return distances; } }
ExceedsMaxDist_AtBound(cost, md) == md # <<>> /\ cost >= md[1]

ExceedsMaxDist(cost, md) == md # <<>> /\ cost > md[1]

\* Lines 76-100: one iteration of `while let Some(state) = queue.pop()`.
LoopIteration ==
    /\ pc = "loop"
    /\ queue # <<>>
    /\ LET cost == Head(queue)[1]
           v == Head(queue)[2]
           rest == Tail(queue)
       IN IF cost > GetDist(distances, v)
          THEN /\ queue' = rest
               /\ pops' = Append(pops, [cost |-> cost, v |-> v, did |-> "continue"])
               /\ UNCHANGED <<distances, pc>>
          ELSE IF ExceedsMaxDist(cost, max_dist)
          THEN /\ queue' = rest
               /\ pc' = "done"
               /\ pops' = Append(pops, [cost |-> cost, v |-> v, did |-> "return"])
               /\ UNCHANGED distances
          ELSE LET r == RelaxEdges(unwrap_or_default(search(graph, failing, v)),
                                   cost, rest, distances) IN
               /\ queue' = r[1]
               /\ distances' = r[2]
               /\ pops' = Append(pops, [cost |-> cost, v |-> v, did |-> "node_edges"])
               /\ UNCHANGED pc
    /\ UNCHANGED <<graph, sources, max_dist, failing>>
    /\ UNCHANGED <<lvars, nvars>>

\* Line 102: the queue is empty, `distances` is returned.
ReturnDistances ==
    /\ pc = "loop"
    /\ queue = <<>>
    /\ pc' = "done"
    /\ UNCHANGED <<graph, sources, max_dist, distances, queue, pops, failing>>
    /\ UNCHANGED <<lvars, nvars>>

Next == PushSources \/ LoopIteration \/ ReturnDistances

Spec == Init /\ [][Next]_vars

----------------------------------------------------------------------------
\* Reference semantics of hop distance, independent of the algorithm.

Successors(S) == {e[2] : e \in {e \in graph : e[1] \in S}}

RECURSIVE ReachWithin(_)
ReachWithin(k) ==
    IF k = 0 THEN Range(sources)
    ELSE LET R == ReachWithin(k - 1) IN R \cup Successors(R)

Reachable == ReachWithin(NumNodes)

TrueDist(n) == Min({k \in 0..NumNodes : n \in ReachWithin(k)})

----------------------------------------------------------------------------
\* Claims about dijkstra_multi.

\* C1: with no max_dist the returned map holds exactly the nodes reachable from
\* some source, each with its minimum hop count from the nearest source.
C1_UnboundedDistancesExact ==
    (pc = "done" /\ max_dist = <<>>) =>
        /\ DOMAIN distances = Reachable
        /\ \A n \in Reachable : distances[n] = TrueDist(n)

\* The chain a->b->c from a: {a:0, b:1, c:2}.
C1_Witness ==
    /\ pc = "done" /\ max_dist = <<>>
    /\ graph = {<<1, 2>>, <<2, 3>>} /\ sources = <<1>>
    /\ distances = [n \in {1, 2, 3} |-> n - 1]

\* C2: with max_dist = m the returned map contains only nodes whose recorded
\* distance is at most m.
C2_OnlyEntriesWithinMax ==
    (pc = "done" /\ max_dist # <<>>) =>
        \A n \in DOMAIN distances : distances[n] <= max_dist[1]

----------------------------------------------------------------------------
\* Link queries: the data the functions work on.

ShardIds == {1, 2}

SegmentOrds == {0, 1}

\* f64 sort scores, by their rank under f64::total_cmp.
Scores == {1, 2}

NodeIds == {1, 2}

\* The node the query is about (self.node).
QueryNode == 3

\* EdgeLimit
Unlimited == [tag |-> "Unlimited", limit |-> 0, offset |-> 0]

Limit(n) == [tag |-> "Limit", limit |-> n, offset |-> 0]

LimitAndOffset(n, k) == [tag |-> "LimitAndOffset", limit |-> n, offset |-> k]

\* DocAddress
DocAddresses == [shard_id : ShardIds, segment_ord : SegmentOrds, doc_id : {0}]

\* The doc of a fruit entry: a DocAddress for the page-granularity queries
\* (TopDocsCollector), a deduplicated doc {address, host} for the
\* host-granularity ones (TopDocsCollector<_, HostDeduplicator>).
FruitDocs(gran) ==
    IF gran = "page" THEN DocAddresses
    ELSE [address : DocAddresses, host : NodeIds]

FruitEntries(gran) == Scores \X FruitDocs(gran)

\* SmallEdge, paired with its score, of a backlink query on QueryNode.
SmallItems ==
    {<<sc, [from |-> n, to |-> QueryNode, rel_flags |-> 0]>> : sc \in Scores, n \in NodeIds}

\* Edge (the full stored document).
FullItems ==
    [from : NodeIds, to : {QueryNode}, rel_flags : {0}, label : {""}, sort_score : Scores]

IntermediateItems(kind) == IF kind = "small" THEN SmallItems ELSE FullItems

----------------------------------------------------------------------------
\* filter_fruit_shards

DocShardId_SegmentOrd(gran, doc) ==
    IF gran = "page" THEN doc.segment_ord ELSE doc.address.segment_ord

\* doc.shard_id (page granularity), doc.address.shard_id (host granularity)
DocShardId(gran, doc) ==
    IF gran = "page" THEN doc.shard_id ELSE doc.address.shard_id

\* fruit.into_iter().filter(|(_, doc)| doc.shard_id == shard_id).collect()
RECURSIVE filter_fruit_shards(_, _, _)
filter_fruit_shards(gran, shard_id, f) ==
    IF f = <<>> THEN <<>>
    ELSE IF DocShardId(gran, Head(f)[2]) = shard_id
         THEN <<Head(f)>> \o filter_fruit_shards(gran, shard_id, Tail(f))
         ELSE filter_fruit_shards(gran, shard_id, Tail(f))

----------------------------------------------------------------------------
\* merge_results

Flatten_FirstOnly(rs) == IF rs = <<>> THEN <<>> ELSE Head(rs)

\* results.into_iter().flatten().collect()
RECURSIVE Flatten(_)
Flatten(rs) == IF rs = <<>> THEN <<>> ELSE Head(rs) \o Flatten(Tail(rs))

\* f64::total_cmp as Less = -1, Equal = 0, Greater = 1
total_cmp(a, b) == IF a < b THEN -1 ELSE IF a = b THEN 0 ELSE 1

\* The score the comparator reads: the first component of (f64, SmallEdge), or
\* Edge.sort_score.
ItemScore(kind, item) == IF kind = "small" THEN item[1] ELSE item.sort_score

SortCmp_Ascending(kind, a, b) == total_cmp(ItemScore(kind, a), ItemScore(kind, b))

\* The closure given to sort_by: |(a, _), (b, _)| b.total_cmp(a)
SortCmp(kind, a, b) == total_cmp(ItemScore(kind, b), ItemScore(kind, a))

\* slice::sort_by is a stable sort: x goes before the first element that compares
\* Greater than it.
RECURSIVE InsertStable(_, _, _)
InsertStable(kind, acc, x) ==
    IF acc = <<>> THEN <<x>>
    ELSE IF SortCmp(kind, Head(acc), x) = 1 THEN <<x>> \o acc
    ELSE <<Head(acc)>> \o InsertStable(kind, Tail(acc), x)

RECURSIVE SortFrom(_, _, _)
SortFrom(kind, acc, rest) ==
    IF rest = <<>> THEN acc
    ELSE SortFrom(kind, InsertStable(kind, acc, Head(rest)), Tail(rest))

sort_by(kind, edges) == SortFrom(kind, <<>>, edges)

\* The small queries return the edges without their scores, the full queries
\* return the sorted Vec<Edge>.
merge_results(kind, rs) ==
    LET edges == sort_by(kind, Flatten(rs)) IN
    IF kind = "small" THEN [i \in DOMAIN edges |-> edges[i][2]] ELSE edges

----------------------------------------------------------------------------
\* The specification that applies the two functions to drawn inputs.

DijkstraIdle ==
    /\ graph = {}
    /\ sources = <<>>
    /\ max_dist = <<>>
    /\ distances = <<>>
    /\ queue = <<>>
    /\ pc = "idle"
    /\ pops = <<>>
    /\ failing = {}

EdgeLimits == {Unlimited, Limit(1), Limit(2), LimitAndOffset(1, 1)}

TotalLen(rs) == SumSeq([i \in DOMAIN rs |-> Len(rs[i])])

ResultVectors(kind) ==
    {rs \in SeqsUpTo(SeqsUpTo(IntermediateItems(kind), 0, MaxItems), 0, 2) :
        TotalLen(rs) <= MaxItems}

InitFilter ==
    /\ op = "filter"
    /\ query \in [gran : {"page", "host"}, kind : {"small"}, limit : {Unlimited}]
    /\ fruit \in SeqsUpTo(FruitEntries(query.gran), 0, MaxItems)
    /\ results = <<>>

InitMerge ==
    /\ op = "merge"
    /\ query \in [gran : {"page"}, kind : {"small", "full"}, limit : EdgeLimits]
    /\ fruit = <<>>
    /\ results \in ResultVectors(query.kind)

InitLinkFns ==
    /\ DijkstraIdle
    /\ ReadersIdle
    /\ InitFilter \/ InitMerge
    /\ shard_fruits = <<>>
    /\ output = <<>>
    /\ index = <<>>
    /\ local_fruits = <<>>
    /\ stage = "none"

\* One call of filter_fruit_shards(shard_id, fruit.clone()).
FilterFruitShards(shard_id) ==
    /\ op = "filter"
    /\ shard_id \notin DOMAIN shard_fruits
    /\ shard_fruits' =
          [s \in (DOMAIN shard_fruits) \cup {shard_id} |->
              IF s = shard_id THEN filter_fruit_shards(query.gran, shard_id, fruit)
              ELSE shard_fruits[s]]
    /\ UNCHANGED <<op, query, fruit, results, output>>
    /\ UNCHANGED <<dvars, pvars, nvars>>

\* One call of Q::merge_results(results).
MergeResults ==
    /\ op = "merge"
    /\ output = <<>>
    /\ output' = <<merge_results(query.kind, results)>>
    /\ UNCHANGED <<op, query, fruit, shard_fruits, results>>
    /\ UNCHANGED <<dvars, pvars, nvars>>

NextLinkFns == (\E s \in ShardIds : FilterFruitShards(s)) \/ MergeResults

SpecLinkFns == InitLinkFns /\ [][NextLinkFns]_vars

----------------------------------------------------------------------------
\* Claims about filter_fruit_shards and merge_results.

Count(e, seq) == Cardinality({i \in DOMAIN seq : seq[i] = e})

\* The shard id an entry of the fruit carries.
EntryShard(e) ==
    IF query.gran = "page" THEN e[2].shard_id ELSE e[2].address.shard_id

EntriesOfShard(s) == SelectSeq(fruit, LAMBDA e : EntryShard(e) = s)

\* C4: filter_fruit_shards(s, fruit) is exactly the entries of shard s, in their
\* original order and unchanged; over the shard ids of the fruit the results
\* partition it: every entry is in exactly one of them.
C4_FilterFruitShardsPartitions ==
    op = "filter" =>
        /\ \A s \in DOMAIN shard_fruits : shard_fruits[s] = EntriesOfShard(s)
        /\ {EntryShard(fruit[i]) : i \in DOMAIN fruit} \subseteq DOMAIN shard_fruits =>
              \A e \in Range(fruit) :
                  /\ Cardinality({s \in DOMAIN shard_fruits :
                                     Count(e, shard_fruits[s]) > 0}) = 1
                  /\ \A s \in DOMAIN shard_fruits :
                         Count(e, shard_fruits[s]) \in {0, Count(e, fruit)}

\* A fruit with entries of both shards, filtered for both.
C4_Witness ==
    /\ op = "filter"
    /\ DOMAIN shard_fruits = ShardIds
    /\ Len(fruit) = 3
    /\ \A s \in ShardIds : shard_fruits[s] # <<>>

\* The inputs of merge_results in one list, and what the claims read of an item.
RECURSIVE InputItemsFrom(_)
InputItemsFrom(i) ==
    IF i > Len(results) THEN <<>> ELSE results[i] \o InputItemsFrom(i + 1)

InputItems == InputItemsFrom(1)

RefScore(item) == IF query.kind = "small" THEN item[1] ELSE item.sort_score

RefEdge(item) == IF query.kind = "small" THEN item[2] ELSE item

\* C5: merge_results returns every input edge exactly once, in descending order
\* of sort score (edges of equal score in any order).
C5_MergeResultsSortedPermutation ==
    (op = "merge" /\ output # <<>>) =>
        LET out == output[1]
            inp == InputItems
        IN /\ Len(out) = Len(inp)
           /\ \E p \in PermutationsOf(Len(inp)) :
                 /\ \A i \in DOMAIN out : out[i] = RefEdge(inp[p[i]])
                 /\ \A i, j \in DOMAIN out :
                        i < j => RefScore(inp[p[i]]) >= RefScore(inp[p[j]])

\* Two shard lists, the first in ascending order, merged into three edges.
C5_Witness ==
    /\ op = "merge" /\ output # <<>>
    /\ Len(results) = 2 /\ Len(results[1]) = 2 /\ Len(results[2]) = 1
    /\ RefScore(results[1][1]) < RefScore(results[1][2])
    /\ Len(output[1]) = 3

IsPermutationOf(a, b) ==
    /\ Len(a) = Len(b)
    /\ \E p \in PermutationsOf(Len(b)) : \A i \in DOMAIN a : a[i] = b[p[i]]

\* The input vector with the shard lists, and the items in each list, permuted.
Rearrangements(rs) ==
    {r2 \in ResultVectors(query.kind) :
        /\ Len(r2) = Len(rs)
        /\ \E p \in PermutationsOf(Len(rs)) :
              \A i \in DOMAIN rs : IsPermutationOf(r2[i], rs[p[i]])}

\* C6: the output of merge_results is the same for every permutation of the
\* input vector and of each shard's list.
C6_MergeResultsOrderIndependent ==
    (op = "merge" /\ output # <<>>) =>
        \A r2 \in Rearrangements(results) :
            merge_results(query.kind, r2) = output[1]

\* The scores at positions lo..hi of the descending ranking of all input edges.
RECURSIVE RankedScores(_)
RankedScores(S) ==
    IF S = {} THEN <<>>
    ELSE LET i == CHOOSE i \in S : \A j \in S : RefScore(InputItems[i]) >= RefScore(InputItems[j])
         IN <<RefScore(InputItems[i])>> \o RankedScores(S \ {i})

Window(seq, k, n) ==
    SubSeq(seq, k + 1, IF k + n < Len(seq) THEN k + n ELSE Len(seq))

\* C7: for Limit(n) or LimitAndOffset{n, k} the list merge_results returns has at
\* most n edges: it is as long as the ranking's window after its first k edges.
C7_MergeResultsTruncates ==
    (op = "merge" /\ output # <<>> /\ query.limit.tag # "Unlimited") =>
        /\ Len(output[1]) <= query.limit.limit
        /\ Len(output[1]) =
              Len(Window(RankedScores(DOMAIN InputItems),
                         query.limit.offset, query.limit.limit))

\* C7 (amended): merge_results applies no truncation: whatever the EdgeLimit, it
\* returns as many edges as its inputs hold together.
C7_MergeResultsKeepsAllEdges ==
    (op = "merge" /\ output # <<>>) =>
        Len(output[1]) = SumSeq([i \in DOMAIN results |-> Len(results[i])])

\* A query with Limit(1) whose merge_results returns three edges of two shards.
C7_Witness ==
    /\ op = "merge" /\ output # <<>>
    /\ query.limit = Limit(1)
    /\ Len(results) = 2 /\ results[1] # <<>> /\ results[2] # <<>>
    /\ Len(output[1]) = 3

----------------------------------------------------------------------------
\* The search of one small link query (BacklinksQuery, HostBacklinksQuery) over
\* the shards: local collection, merge of the fruits, retrieve, merge_results.

\* top_docs::DEDUPLICATION_BUFFER, scaled to the size of the model's indexes.
DEDUPLICATION_BUFFER == 1

\* The segments of each shard's index, and all (shard, segment) places.
SegmentsOf(s) == IF s = 1 THEN {0, 1, 2} ELSE {0}

Slots == <<<<1, 0>>, <<1, 1>>, <<1, 2>>, <<2, 0>>>>

\* The column values of a matching edge document: its sort score and the host
\* of its neighbour node (read by the host-granularity queries only).
DocValues(gran) ==
    IF gran = "page" THEN [score : Scores, host : {1}]
    ELSE {[score |-> 2, host |-> 1], [score |-> 2, host |-> 2], [score |-> 1, host |-> 2]}

\* The index whose segment Slots[k] holds the documents docs[k], in doc id order.
IndexOf(docs) ==
    [s \in ShardIds |-> [g \in SegmentsOf(s) |->
        docs[CHOOSE k \in DOMAIN Slots : Slots[k] = <<s, g>>]]]

\* The numbers of documents of the segments: at most MaxPageDocs edges of pages
\* and at most MaxDocs edges of hosts in all.
SegmentLens(gran) ==
    LET n == IF gran = "page" THEN MaxPageDocs ELSE MaxDocs
    IN {l \in [DOMAIN Slots -> 0..n] : l[1] + l[2] + l[3] + l[4] <= n}

Address(s, g, d) == [shard_id |-> s, segment_ord |-> g, doc_id |-> d]

DocAt(a) == index[a.shard_id][a.segment_ord][a.doc_id + 1]

\* The FromId of an edge document: every document is the link of another page.
PageIdOf(a) == 100 * a.shard_id + 10 * a.segment_ord + a.doc_id

\* segment_column_fields.u64(field) / .f64(field) of segment g: whether it is
\* Some(column).
HasColumn(g, field) == columns = <<>> \/ field \in columns[g]

\* column.first(doc_id): Some(v) as <<v>>, None as <<>>. A document lists the
\* fields it holds no value for under `missing`, when it has any.
ColumnFirst(field, a) ==
    IF "missing" \in DOMAIN DocAt(a) /\ field \in DocAt(a).missing THEN <<>>
    ELSE IF field = "FromId" THEN <<PageIdOf(a)>>
    ELSE IF field = "FromHostId" THEN <<DocAt(a).host>>
    ELSE IF field = "RelFlags" THEN <<0>>
    ELSE <<DocAt(a).score>>

\* tantivy_query: the LinksQuery / HostLinksQuery of the node, wrapped in a
\* ShortCircuitQuery when the EdgeLimit is not Unlimited.
tantivy_query(q) ==
    IF q.limit.tag = "Unlimited" THEN [cutoff |-> <<>>]
    ELSE IF q.limit.tag = "Limit"
    THEN [cutoff |-> <<q.limit.limit + DEDUPLICATION_BUFFER>>]
    ELSE [cutoff |-> <<q.limit.limit + q.limit.offset + DEDUPLICATION_BUFFER>>]

collector_EnableOffset(q, s) ==
    [limit |-> q.limit, shard_id |-> <<s>>, perform_offset |-> TRUE,
     deduplicate |-> (q.gran = "host"),
     host_field |-> IF q.gran = "host" THEN <<"FromHostId">> ELSE <<>>]

collector_WrongHostField(q, s) ==
    [limit |-> q.limit, shard_id |-> <<s>>, perform_offset |-> FALSE,
     deduplicate |-> (q.gran = "host"),
     host_field |-> IF q.gran = "host" THEN <<"FromId">> ELSE <<>>]

\* collector: TopDocsCollector::from(self.limit).with_shard_id(..).disable_offset()
\* and, for the host-granularity queries, .with_deduplicator(HostDeduplicator)
\* .with_host_field(FromHostId)
collector(q, s) ==
    [limit |-> q.limit, shard_id |-> <<s>>, perform_offset |-> FALSE,
     deduplicate |-> (q.gran = "host"),
     host_field |-> IF q.gran = "host" THEN <<"FromHostId">> ELSE <<>>]

\* remote_collector: TopDocsCollector::from(self.limit).enable_offset()
\* and, for the host-granularity queries, .with_deduplicator(HostDeduplicator)
remote_collector(q) ==
    [limit |-> q.limit, shard_id |-> <<>>, perform_offset |-> TRUE,
     deduplicate |-> (q.gran = "host"), host_field |-> <<>>]

\* ShortCircuitQuery: the doc ids the scan of a segment yields, in doc id order,
\* stopped after `cutoff` matches.
ScannedDocIds(tq, s, g) ==
    LET n == Len(index[s][g]) IN
    IF tq.cutoff = <<>> \/ tq.cutoff[1] >= n THEN 0..(n - 1)
    ELSE 0..(tq.cutoff[1] - 1)

\* ---- TopDocsCollector ----

EntryAddress(c, e) == IF c.deduplicate THEN e[2].address ELSE e[2]

AddressLess(a, b) ==
    \/ a.shard_id < b.shard_id
    \/ a.shard_id = b.shard_id /\ a.segment_ord < b.segment_ord
    \/ a.shard_id = b.shard_id /\ a.segment_ord = b.segment_ord /\ a.doc_id < b.doc_id

\* The order of the bounded set: score descending, ties by the doc address.
RanksBefore(c, x, y) ==
    \/ x[1] > y[1]
    \/ x[1] = y[1] /\ AddressLess(EntryAddress(c, x), EntryAddress(c, y))

RECURSIVE RankInsert(_, _, _)
RankInsert(c, acc, x) ==
    IF acc = <<>> THEN <<x>>
    ELSE IF RanksBefore(c, x, Head(acc)) THEN <<x>> \o acc
    ELSE <<Head(acc)>> \o RankInsert(c, Tail(acc), x)

RECURSIVE RankSort(_, _, _)
RankSort(c, acc, rest) ==
    IF rest = <<>> THEN acc
    ELSE RankSort(c, RankInsert(c, acc, Head(rest)), Tail(rest))

Take(seq, n) == SubSeq(seq, 1, IF n < Len(seq) THEN n ELSE Len(seq))

Drop(seq, n) == SubSeq(seq, n + 1, Len(seq))

\* The bounded set: the best limit + offset + DEDUPLICATION_BUFFER entries.
TopN(c, entries) ==
    LET ranked == RankSort(c, <<>>, entries) IN
    IF c.limit.tag = "Unlimited" THEN ranked
    ELSE Take(ranked, c.limit.limit + c.limit.offset + DEDUPLICATION_BUFFER)

\* HostDeduplicator: of the entries with one host key the best ranked survives.
RECURSIVE Deduplicate(_, _, _)
Deduplicate(c, seen, entries) ==
    IF ~c.deduplicate THEN entries
    ELSE IF entries = <<>> THEN <<>>
    ELSE IF Head(entries)[2].host \in seen THEN Deduplicate(c, seen, Tail(entries))
    ELSE <<Head(entries)>> \o
         Deduplicate(c, seen \cup {Head(entries)[2].host}, Tail(entries))

\* The entry the segment collector makes of a document: its score and address,
\* with the value of the host field as the key when it deduplicates.
EntryOf(c, a) ==
    IF c.deduplicate
    THEN <<ColumnFirst("SortScore", a)[1],
           [address |-> a, host |-> ColumnFirst(c.host_field[1], a)[1]]>>
    ELSE <<ColumnFirst("SortScore", a)[1], a>>

\* The segment fruit: the bounded, deduplicated set over the scanned documents.
SegmentFruit(c, tq, s, g) ==
    LET ids == SetToSeq(ScannedDocIds(tq, s, g))
        entries == [k \in DOMAIN ids |-> EntryOf(c, Address(s, g, ids[k]))]
    IN Deduplicate(c, {}, TopN(c, entries))

\* merge_fruits: the same reduction over the concatenated fruits; the remote
\* collector then drops the first `offset` entries and keeps `limit` of the rest.
merge_fruits(c, fruits) ==
    LET merged == Deduplicate(c, {}, TopN(c, Flatten(fruits))) IN
    IF ~c.perform_offset \/ c.limit.tag = "Unlimited" THEN merged
    ELSE Take(Drop(merged, c.limit.offset), c.limit.limit)

\* The fruit of the local phase on shard s: the segment collectors over the
\* short-circuited scans, then the local collector's merge of their fruits.
LocalFruit(q, s) ==
    LET c == collector(q, s)
        tq == tantivy_query(q)
        segs == SetToSeq(SegmentsOf(s))
    IN merge_fruits(c, [k \in DOMAIN segs |-> SegmentFruit(c, tq, s, segs[k])])

\* ---- retrieve ----

\* doc_ids.sort_unstable_by_key(|doc| doc.segment_ord): the orders an unstable
\* sort may leave the addresses in.
RECURSIVE SortedOrders(_, _)
SortedOrders(docs, I) ==
    IF I = {} THEN {<<>>}
    ELSE UNION {{<<docs[i]>> \o rest : rest \in SortedOrders(docs, I \ {i})} :
                   i \in {i \in I : \A j \in I : docs[i].segment_ord <= docs[j].segment_ord}}

\* The addresses left in the order they were given (no sort).
SortUnstableBySegmentOrd_NoSort(docs) == {docs}

SortUnstableBySegmentOrd(docs) == SortedOrders(docs, DOMAIN docs)

\* The three `let Some(..) = column.first(doc.doc_id) else { continue; }`:
\* the triple of the document as <<triple>>, or <<>> when the document is skipped.
\* Here a missing sort score is read as 0 instead of skipping the document.
EdgeOfDoc_DefaultScore(doc, node_id_field) ==
    LET id == ColumnFirst(node_id_field, doc)
        rel_flags == ColumnFirst("RelFlags", doc)
        sort_score == ColumnFirst("SortScore", doc)
    IN IF id = <<>> \/ rel_flags = <<>> THEN <<>>
       ELSE <<<<id[1], rel_flags[1], IF sort_score = <<>> THEN 0 ELSE sort_score[1]>>>>

EdgeOfDoc(doc, node_id_field) ==
    LET id == ColumnFirst(node_id_field, doc)
        rel_flags == ColumnFirst("RelFlags", doc)
        sort_score == ColumnFirst("SortScore", doc)
    IN IF id = <<>> \/ rel_flags = <<>> \/ sort_score = <<>> THEN <<>>
       ELSE <<<<id[1], rel_flags[1], sort_score[1]>>>>

\* The loop of fetch_small_edges over the sorted addresses. When the segment
\* ordinal differs from prev_segment_id the three columns are opened with
\* .unwrap(): a segment without one of them panics. A document without a value
\* in one of the three columns is skipped. `opens` is the history of the
\* segment ordinals at which the columns were opened.
RECURSIVE FetchLoop(_, _, _, _, _)
FetchLoop(docs, node_id_field, prev_segment_id, edges, opens) ==
    IF docs = <<>> THEN [panicked |-> FALSE, edges |-> edges, opened |-> opens]
    ELSE LET doc == Head(docs)
             open == <<doc.segment_ord>> # prev_segment_id
             opens1 == IF open THEN Append(opens, doc.segment_ord) ELSE opens
         IN IF open /\ ~(/\ HasColumn(doc.segment_ord, node_id_field)
                         /\ HasColumn(doc.segment_ord, "RelFlags")
                         /\ HasColumn(doc.segment_ord, "SortScore"))
            THEN [panicked |-> TRUE, edges |-> edges, opened |-> opens1]
            ELSE FetchLoop(Tail(docs), node_id_field, <<doc.segment_ord>>,
                           edges \o EdgeOfDoc(doc, node_id_field), opens1)

\* fetch_small_edges after the sort: Ok(edges) as a record with panicked FALSE.
fetch_small_edges(docs, node_id_field) ==
    FetchLoop(docs, node_id_field, <<>>, <<>>, <<>>)

\* retrieve of BacklinksQuery (FromId) and HostBacklinksQuery (FromHostId), with
\* the addresses as the unstable sort left them.
retrieve(q, sorted) ==
    LET nodes == fetch_small_edges(sorted,
                     IF q.gran = "page" THEN "FromId" ELSE "FromHostId").edges
    IN [i \in DOMAIN nodes |->
           <<nodes[i][3], [from |-> nodes[i][1], to |-> QueryNode, rel_flags |-> nodes[i][2]]>>]

FruitAddresses(q, f) ==
    [i \in DOMAIN f |-> IF q.gran = "page" THEN f[i][2] ELSE f[i][2].address]

----------------------------------------------------------------------------
\* The specification of a search.

SearchLimits(gran) ==
    IF gran = "page"
    THEN {Unlimited, Limit(1), Limit(2), LimitAndOffset(1, 0), LimitAndOffset(1, 1)}
    ELSE {Limit(2)}

InitSearch ==
    /\ DijkstraIdle
    /\ ReadersIdle
    /\ op = "search"
    /\ query \in UNION {[gran : {g}, kind : {"small"}, limit : SearchLimits(g)] :
                          g \in {"page", "host"}}
    /\ \E len \in SegmentLens(query.gran) :
           \E d1 \in [1..len[1] -> DocValues(query.gran)],
              d2 \in [1..len[2] -> DocValues(query.gran)],
              d3 \in [1..len[3] -> DocValues(query.gran)],
              d4 \in [1..len[4] -> DocValues(query.gran)] :
               index = IndexOf(<<d1, d2, d3, d4>>)
    /\ local_fruits = <<>>
    /\ fruit = <<>>
    /\ shard_fruits = <<>>
    /\ results = <<>>
    /\ output = <<>>
    /\ stage = "collect"

\* The local phase on one shard: the index query, the segment collectors and the
\* merge of the segment fruits by the local collector.
LocalCollect(s) ==
    /\ stage = "collect"
    /\ s \notin DOMAIN local_fruits
    /\ local_fruits' = [x \in (DOMAIN local_fruits) \cup {s} |->
                            IF x = s THEN LocalFruit(query, s) ELSE local_fruits[x]]
    /\ UNCHANGED <<fvars, index, stage>>
    /\ UNCHANGED <<dvars, nvars>>

\* The coordinator merges the fruits of all shards with the remote collector.
MergeFruits ==
    /\ stage = "collect"
    /\ DOMAIN local_fruits = ShardIds
    /\ LET shards == SetToSeq(ShardIds) IN
       fruit' = merge_fruits(remote_collector(query),
                             [k \in DOMAIN shards |-> local_fruits[shards[k]]])
    /\ stage' = "retrieve"
    /\ UNCHANGED <<op, query, shard_fruits, results, output, index, local_fruits>>
    /\ UNCHANGED <<dvars, nvars>>

\* filter_fruit_shards for one shard and retrieve on that shard; the shard's
\* intermediate output joins the vector given to merge_results.
Retrieve(s) ==
    /\ stage = "retrieve"
    /\ s \notin DOMAIN shard_fruits
    /\ LET f == filter_fruit_shards(query.gran, s, fruit) IN
       /\ shard_fruits' = [x \in (DOMAIN shard_fruits) \cup {s} |->
                              IF x = s THEN f ELSE shard_fruits[x]]
       /\ \E sorted \in SortUnstableBySegmentOrd(FruitAddresses(query, f)) :
              results' = Append(results, retrieve(query, sorted))
    /\ stage' = IF (DOMAIN shard_fruits) \cup {s} = ShardIds THEN "merge" ELSE "retrieve"
    /\ UNCHANGED <<op, query, fruit, output, index, local_fruits>>
    /\ UNCHANGED <<dvars, nvars>>

\* Q::merge_results over the intermediate outputs of all shards.
MergeShardResults ==
    /\ stage = "merge"
    /\ output' = <<merge_results(query.kind, results)>>
    /\ stage' = "done"
    /\ UNCHANGED <<op, query, fruit, shard_fruits, results, index, local_fruits>>
    /\ UNCHANGED <<dvars, nvars>>

NextSearch ==
    \/ \E s \in ShardIds : LocalCollect(s)
    \/ MergeFruits
    \/ \E s \in ShardIds : Retrieve(s)
    \/ MergeShardResults

SpecSearch == InitSearch /\ [][NextSearch]_vars

----------------------------------------------------------------------------
\* Reference notions for the search claims.

\* The addresses of the matching edge documents of the whole index.
MatchingDocs ==
    UNION {{Address(sl[1], sl[2], d) : d \in 0..(Len(index[sl[1]][sl[2]]) - 1)} :
              sl \in Range(Slots)}

\* The documents the short-circuited scans of query q hand to the collectors.
Candidates(q) ==
    {a \in MatchingDocs :
        a.doc_id \in ScannedDocIds(tantivy_query(q), a.shard_id, a.segment_ord)}

\* The scores of a set of documents, highest first.
RECURSIVE ScoresDescending(_)
ScoresDescending(A) ==
    IF A = {} THEN <<>>
    ELSE LET a == CHOOSE x \in A : \A y \in A : DocAt(y).score <= DocAt(x).score
         IN <<DocAt(a).score>> \o ScoresDescending(A \ {a})

\* The matching documents an output edge of a query of granularity gran stands
\* for: the document of the page, or the documents of the host.
DocsOfEdge(gran, e) ==
    {a \in MatchingDocs :
        e.from = IF gran = "page" THEN PageIdOf(a) ELSE DocAt(a).host}

\* The score an edge has in the ranking: the highest score of its documents.
EdgeScore(gran, e) ==
    LET A == DocsOfEdge(gran, e) IN
    DocAt(CHOOSE a \in A : \A b \in A : DocAt(b).score <= DocAt(a).score).score

OutputScores(gran, out) == [i \in DOMAIN out |-> EdgeScore(gran, out[i])]

\* Every edge of `out` is the edge of a matching document.
EdgesOfDocs(gran, out) == \A i \in DOMAIN out : DocsOfEdge(gran, out[i]) # {}

NoRepeatedEdge(out) ==
    \A i, j \in DOMAIN out : i # j => out[i].from # out[j].from

\* The whole search as a function of the query, on the index of the state; the
\* unstable sort of retrieve leaves the addresses in some one of its orders.
SearchOutput(q) ==
    LET shards == SetToSeq(ShardIds)
        merged == merge_fruits(remote_collector(q),
                               [k \in DOMAIN shards |-> LocalFruit(q, shards[k])])
    IN merge_results(q.kind,
           [k \in DOMAIN shards |->
               retrieve(q, CHOOSE sorted \in SortUnstableBySegmentOrd(
                               FruitAddresses(q, filter_fruit_shards(q.gran, shards[k], merged))) :
                               TRUE)])

\* C8: a page-granularity query with Limit(n) returns the n highest-scoring
\* matching edges of the whole index in descending score order (edges of equal
\* score in either order), however the edges lie in shards and segments.
C8_LimitEqualsCentralizedTopN ==
    (stage = "done" /\ query.gran = "page" /\ query.limit.tag = "Limit") =>
        /\ EdgesOfDocs("page", output[1])
        /\ NoRepeatedEdge(output[1])
        /\ OutputScores("page", output[1]) =
               Take(ScoresDescending(MatchingDocs), query.limit.limit)

\* C9: for a fixed query, index and limit L the page at offset k and the page at
\* offset k + L are disjoint and together are positions k .. k + 2L of the
\* ranked sequence the query returns with Unlimited (edges of equal score in
\* either order).
C9_PaginationStable ==
    (stage = "done" /\ query.limit.tag = "LimitAndOffset") =>
        LET L == query.limit.limit
            k == query.limit.offset
            page1 == output[1]
            page2 == SearchOutput([query EXCEPT !.limit = LimitAndOffset(L, k + L)])
            full == SearchOutput([query EXCEPT !.limit = Unlimited])
        IN /\ NoRepeatedEdge(page1 \o page2)
           /\ OutputScores(query.gran, page1 \o page2) =
                  OutputScores(query.gran, Take(Drop(full, k), 2 * L))

\* The host keys of the matching documents, and whether a limit asks for no
\* more entries than there are keys.
HostKeys == {DocAt(a).host : a \in MatchingDocs}

LimitWithinKeys ==
    query.limit.tag # "Unlimited" => query.limit.limit <= Cardinality(HostKeys)

\* Entry e of a host fruit is the highest-scoring candidate of its key.
IsBestCandidate(e) ==
    LET sameKey == {a \in Candidates(query) : DocAt(a).host = e[2].host} IN
    /\ \E a \in sameKey : DocAt(a).score = e[1]
    /\ \A a \in sameKey : DocAt(a).score <= e[1]

NoRepeatedKey ==
    /\ \A i, j \in DOMAIN fruit : i # j => fruit[i][2].host # fruit[j][2].host
    /\ stage = "done" => NoRepeatedEdge(output[1])

\* The overfetch is adequate when on no shard the segment fruits hold together
\* more entries than the bounded set of the local collector.
AdequateOverfetch ==
    \A s \in ShardIds :
        LET c == collector(query, s)
            tq == tantivy_query(query)
            segs == SetToSeq(SegmentsOf(s))
        IN query.limit.tag # "Unlimited" =>
               SumSeq([k \in DOMAIN segs |-> Len(SegmentFruit(c, tq, s, segs[k]))])
                   <= query.limit.limit + query.limit.offset + DEDUPLICATION_BUFFER

C11_LimitKeepsNDistinctHosts ==
    (/\ stage = "done" /\ query.gran = "host" /\ query.limit.tag = "Limit"
     /\ Cardinality(HostKeys) >= query.limit.limit) =>
        Cardinality({output[1][i].from : i \in DOMAIN output[1]}) = query.limit.limit

----------------------------------------------------------------------------
\* The construction of the index query and the collectors by every link query
\* type of backlink.rs and forwardlink.rs.

QueryVariants ==
    {"BacklinksQuery", "HostBacklinksQuery", "FullBacklinksQuery",
     "FullHostBacklinksQuery", "BacklinksWithLabelsQuery", "ForwardlinksQuery",
     "HostForwardlinksQuery", "FullForwardlinksQuery", "FullHostForwardlinksQuery"}

VariantGran(v) ==
    IF v \in {"HostBacklinksQuery", "FullHostBacklinksQuery",
              "HostForwardlinksQuery", "FullHostForwardlinksQuery"}
    THEN "host" ELSE "page"

VariantKind(v) ==
    IF v \in {"FullBacklinksQuery", "FullHostBacklinksQuery",
              "FullForwardlinksQuery", "FullHostForwardlinksQuery"}
    THEN "full" ELSE "small"

\* Q::tantivy_query of the variant: BacklinksWithLabelsQuery builds the bare
\* LinksQuery whatever its limit, the others match on self.limit.
variant_tantivy_query(v, limit) ==
    IF v = "BacklinksWithLabelsQuery" THEN [cutoff |-> <<>>]
    ELSE tantivy_query([gran |-> VariantGran(v), kind |-> VariantKind(v), limit |-> limit])

\* Q::collector and Q::remote_collector of the variant.
variant_collector(v, limit, s) ==
    collector([gran |-> VariantGran(v), kind |-> VariantKind(v), limit |-> limit], s)

variant_remote_collector(v, limit) ==
    remote_collector([gran |-> VariantGran(v), kind |-> VariantKind(v), limit |-> limit])

BuildLimits ==
    {Unlimited} \cup {Limit(n) : n \in 1..MaxLimit}
        \cup {LimitAndOffset(n, k) : n \in 1..MaxLimit, k \in 0..MaxLimit}

InitBuild ==
    /\ DijkstraIdle
    /\ ReadersIdle
    /\ op = "build"
    /\ query \in [variant : QueryVariants, limit : BuildLimits]
    /\ fruit = <<>>
    /\ shard_fruits = <<>>
    /\ results = <<>>
    /\ output = <<>>
    /\ index = <<>>
    /\ local_fruits = <<>>
    /\ stage = "none"

\* One call of a method of the query; its result is kept under the method's name.
BuildTantivyQuery ==
    /\ op = "build"
    /\ "tantivy_query" \notin DOMAIN output
    /\ output' = ("tantivy_query" :> variant_tantivy_query(query.variant, query.limit)) @@ output
    /\ UNCHANGED <<op, query, fruit, shard_fruits, results, pvars>>
    /\ UNCHANGED <<dvars, nvars>>

BuildCollector(s) ==
    /\ op = "build"
    /\ "collector" \notin DOMAIN output
    /\ output' = ("collector" :> variant_collector(query.variant, query.limit, s)) @@ output
    /\ UNCHANGED <<op, query, fruit, shard_fruits, results, pvars>>
    /\ UNCHANGED <<dvars, nvars>>

BuildRemoteCollector ==
    /\ op = "build"
    /\ "remote_collector" \notin DOMAIN output
    /\ output' = ("remote_collector" :> variant_remote_collector(query.variant, query.limit))
                     @@ output
    /\ UNCHANGED <<op, query, fruit, shard_fruits, results, pvars>>
    /\ UNCHANGED <<dvars, nvars>>

NextBuild ==
    \/ BuildTantivyQuery
    \/ \E s \in ShardIds : BuildCollector(s)
    \/ BuildRemoteCollector

SpecBuild == InitBuild /\ [][NextBuild]_vars

\* C12: every link query variant with Limit(limit) or LimitAndOffset{limit,
\* offset} builds an index query with the short-circuit cutoff limit + offset +
\* DEDUPLICATION_BUFFER (offset = 0 for Limit); with Unlimited none.
C12_CutoffOfEveryVariant ==
    (op = "build" /\ "tantivy_query" \in DOMAIN output) =>
        output["tantivy_query"].cutoff =
            IF query.limit.tag = "Unlimited" THEN <<>>
            ELSE <<query.limit.limit + query.limit.offset + DEDUPLICATION_BUFFER>>

----------------------------------------------------------------------------
\* The candidates of shard s ranked: the best score among them.
BestScoreOf(A) == DocAt(CHOOSE a \in A : \A b \in A : DocAt(b).score <= DocAt(a).score).score

\* The ranking the remote collector makes of the shard fruits, before its offset.
MergedRanking ==
    LET shards == SetToSeq(ShardIds) IN
    merge_fruits([remote_collector(query) EXCEPT !.perform_offset = FALSE],
                 [k \in DOMAIN shards |-> local_fruits[shards[k]]])

\* C13: the offset is applied exactly once, after the fruits of all shards are
\* merged and ranked: every link query type builds its local collector with the
\* offset disabled and its remote collector with the offset enabled, a local
\* fruit starts at the best candidate of its shard, and the merged fruit is the
\* merged ranking without its first `offset` entries.
C13_OffsetAppliedOnceAfterMerge ==
    op = "search" =>
        /\ stage = "collect" =>
               \A v \in QueryVariants :
                   /\ \A s \in ShardIds : ~variant_collector(v, query.limit, s).perform_offset
                   /\ variant_remote_collector(v, query.limit).perform_offset
        /\ (stage = "collect" /\ DOMAIN local_fruits = ShardIds) =>
               \A s \in ShardIds :
                   LET cands == {a \in Candidates(query) : a.shard_id = s} IN
                   cands # {} =>
                       /\ local_fruits[s] # <<>>
                       /\ local_fruits[s][1][1] = BestScoreOf(cands)
        /\ (stage = "retrieve" /\ shard_fruits = <<>>) =>
               fruit = IF query.limit.tag = "Unlimited" THEN MergedRanking
                       ELSE Take(Drop(MergedRanking, query.limit.offset), query.limit.limit)

\* A finished search with offset 1 over candidates on both shards, where the
\* merged fruit starts below the best entry of the merged ranking.
C13_Witness ==
    /\ op = "search" /\ stage = "done"
    /\ query.limit.tag = "LimitAndOffset" /\ query.limit.offset = 1
    /\ \A s \in ShardIds : local_fruits[s] # <<>>
    /\ fruit # <<>> /\ output[1] # <<>>
    /\ fruit[1] = MergedRanking[2]
    /\ fruit[1][1] < MergedRanking[1][1]

----------------------------------------------------------------------------
\* The group-by queries HostGroupSketchQuery and HostGroupQuery (group_by.rs)
\* with GroupSketchCollector (collector/group_sketch.rs) and GroupExactCollector.

\* Host node ids, and the host edges an index may hold: FromHostId -> ToHostId.
HostIds == {1, 2, 3}

GroupDocValues ==
    {[from |-> 1, to |-> 1], [from |-> 2, to |-> 1], [from |-> 3, to |-> 1],
     [from |-> 1, to |-> 2]}

GroupSlots == <<<<1, 0>>, <<1, 1>>, <<2, 0>>>>

GroupSegmentsOf(s) == IF s = 1 THEN {0, 1} ELSE {0}

GroupIndexOf(docs) ==
    [s \in ShardIds |-> [g \in GroupSegmentsOf(s) |->
        docs[CHOOSE k \in DOMAIN GroupSlots : GroupSlots[k] = <<s, g>>]]]

\* HyperLogLog: registers holding the highest rank seen; a value is hashed to a
\* register and a rank.
Registers == {0, 1}

HashRegister(v) == v % 2

HashRank(v) == (v \div 2) + 1

EmptySketch == [r \in Registers |-> 0]

\* HyperLogLog::add_u128
add_u128(hll, v) ==
    [hll EXCEPT ![HashRegister(v)] = IF HashRank(v) > @ THEN HashRank(v) ELSE @]

\* HyperLogLog::merge
SketchMerge(a, b) == [r \in Registers |-> IF a[r] >= b[r] THEN a[r] ELSE b[r]]

\* The aggregate of a collector kind: Default::default(), insertion of a value
\* and the merge of two aggregates.
AggDefault(kind) == IF kind = "sketch" THEN EmptySketch ELSE {}

AggAdd(kind, agg, v) == IF kind = "sketch" THEN add_u128(agg, v) ELSE agg \cup {v}

AggMerge_Sum(kind, a, b) ==
    IF kind = "sketch" THEN [r \in Registers |-> a[r] + b[r]] ELSE a \cup b

AggMerge(kind, a, b) == IF kind = "sketch" THEN SketchMerge(a, b) ELSE a \cup b

\* groups.entry(group).or_default() followed by an update of the entry.
EntryOrDefault(kind, groups, group) ==
    IF group \in DOMAIN groups THEN groups[group] ELSE AggDefault(kind)

MapInsert(groups, group, agg) ==
    [k \in (DOMAIN groups) \cup {group} |-> IF k = group THEN agg ELSE groups[k]]

\* Column::first(doc).unwrap() of a host field
FieldFirst(field, doc) == IF field = "FromHostId" THEN doc.from ELSE doc.to

OtherField(field) == IF field = "FromHostId" THEN "ToHostId" ELSE "FromHostId"

\* SegmentColumnFieldFilter::should_skip: the filter of the model skips the
\* edges from one host.
should_skip(filter, doc) == filter # <<>> /\ doc.from = filter[1]

\* tantivy_query of HostGroupSketchQuery / HostGroupQuery: a raw::LinksQuery on
\* the field of the direction with the query's skip_self_links, deduplicated on
\* the other host field when self.deduplicate.
group_tantivy_query_NoSkipForFrom(q) ==
    [node |-> q.node.id,
     field |-> IF q.node.dir = "From" THEN "FromHostId" ELSE "ToHostId",
     skip_self_links |-> IF q.node.dir = "From" THEN FALSE ELSE q.skip_self_links,
     deduplication_field |->
         IF q.deduplicate
         THEN <<IF q.node.dir = "From" THEN "ToHostId" ELSE "FromHostId">>
         ELSE <<>>]

group_tantivy_query(q) ==
    [node |-> q.node.id,
     field |-> IF q.node.dir = "From" THEN "FromHostId" ELSE "ToHostId",
     skip_self_links |-> q.skip_self_links,
     deduplication_field |->
         IF q.deduplicate
         THEN <<IF q.node.dir = "From" THEN "ToHostId" ELSE "FromHostId">>
         ELSE <<>>]

\* raw::LinksQuery: the documents of a segment the scan yields, in doc id order:
\* those whose field is the node, without the self links when skip_self_links,
\* and one document per value of the deduplication field.
RECURSIVE ScanFrom(_, _, _)
ScanFrom(tq, docs, seen) ==
    IF docs = <<>> THEN <<>>
    ELSE LET doc == Head(docs)
             key == IF tq.deduplication_field = <<>> THEN <<>>
                    ELSE <<FieldFirst(tq.deduplication_field[1], doc)>>
         IN IF \/ FieldFirst(tq.field, doc) # tq.node
               \/ tq.skip_self_links /\ doc.from = doc.to
               \/ key # <<>> /\ key[1] \in seen
            THEN ScanFrom(tq, Tail(docs), seen)
            ELSE <<doc>> \o ScanFrom(tq, Tail(docs), seen \cup Range(key))

GroupScan(tq, docs) == ScanFrom(tq, docs, {})

\* collector: Group{Sketch,Exact}Collector::new(self.group, self.value) with
\* the column fields and the column field filter of the query.
group_collector(q) ==
    [kind |-> q.kind, group_field |-> q.group, value_field |-> q.value,
     warmed_column_fields |-> TRUE, filter |-> q.filter]

\* coordinator_collector: the collector without column fields and filter.
group_coordinator_collector(q) ==
    [kind |-> q.kind, group_field |-> q.group, value_field |-> q.value,
     warmed_column_fields |-> FALSE, filter |-> <<>>]

\* SegmentCollector::collect for one document.
group_collect_NoFilter(c, groups, doc) ==
    LET group == FieldFirst(c.group_field, doc)
        value == FieldFirst(c.value_field, doc)
    IN MapInsert(groups, group,
                 AggAdd(c.kind, EntryOrDefault(c.kind, groups, group), value))

group_collect(c, groups, doc) ==
    IF should_skip(c.filter, doc) THEN groups
    ELSE LET group == FieldFirst(c.group_field, doc)
             value == FieldFirst(c.value_field, doc)
         IN MapInsert(groups, group,
                      AggAdd(c.kind, EntryOrDefault(c.kind, groups, group), value))

\* for_segment, collect for every scanned document, harvest.
RECURSIVE CollectAll(_, _, _)
CollectAll(c, groups, docs) ==
    IF docs = <<>> THEN groups
    ELSE CollectAll(c, group_collect(c, groups, Head(docs)), Tail(docs))

GroupSegmentFruit(c, tq, docs) == CollectAll(c, <<>>, GroupScan(tq, docs))

\* The inner loop of merge_fruits: for (group, hll) in fruit.
RECURSIVE MergeEntries(_, _, _, _)
MergeEntries(kind, groups, f, keys) ==
    IF keys = {} THEN groups
    ELSE LET group == Min(keys) IN
         MergeEntries(kind,
                      MapInsert(groups, group,
                                AggMerge(kind, EntryOrDefault(kind, groups, group), f[group])),
                      f, keys \ {group})

RECURSIVE MergeFrom(_, _, _)
MergeFrom(kind, groups, fruits) ==
    IF fruits = <<>> THEN groups
    ELSE MergeFrom(kind, MergeEntries(kind, groups, Head(fruits), DOMAIN Head(fruits)),
                   Tail(fruits))

RECURSIVE group_merge_fruits_Overwrite(_, _)
group_merge_fruits_Overwrite(kind, segment_fruits) ==
    IF segment_fruits = <<>> THEN <<>>
    ELSE LET rest == group_merge_fruits_Overwrite(kind, Tail(segment_fruits))
             first == Head(segment_fruits)
         IN [k \in (DOMAIN first) \cup (DOMAIN rest) |->
                IF k \in DOMAIN first THEN first[k] ELSE rest[k]]

\* GroupSketchCollector::merge_fruits (and GroupExactCollector::merge_fruits)
group_merge_fruits(kind, segment_fruits) == MergeFrom(kind, <<>>, segment_fruits)

\* filter_fruit_shards, retrieve and merge_results of the group-by queries
group_filter_fruit_shards(shard_id, f) == f

group_retrieve(f) == f

group_merge_results(kind, rs) == IF rs = <<>> THEN <<>> ELSE rs[Len(rs)]

----------------------------------------------------------------------------
\* The search of one group-by query: every replica of a shard that answers runs
\* the local phase, the replica fruits of a shard and then the shard fruits are
\* merged, and filter_fruit_shards, retrieve and merge_results follow.

\* The replicas of a shard: shard 1 is served by two replicas, shard 2 by one.
ReplicasOf(s) == IF s = 1 THEN {1, 2} ELSE {1}

\* The fruit of the local phase on a replica of shard s.
GroupLocalFruit(q, s) ==
    LET c == group_collector(q)
        tq == group_tantivy_query(q)
        segs == SetToSeq(GroupSegmentsOf(s))
    IN group_merge_fruits(c.kind,
           [k \in DOMAIN segs |-> GroupSegmentFruit(c, tq, index[s][segs[k]])])

\* HostGroupQuery::backlinks / forwardlinks (and the sketch query's) of node 1:
\* the hosts linking to (linked from) the node grouped under the node, or the
\* node grouped under each of them; with the default options, without
\* skip_self_links, and (for backlinks) with a filter on the source host.
GroupQueries ==
    {q \in {[kind |-> kind, node |-> [dir |-> fld[1], id |-> 1],
             group |-> fld[2], value |-> OtherField(fld[2]),
             filter |-> opt[2], skip_self_links |-> opt[1], deduplicate |-> TRUE] :
                kind \in {"sketch", "exact"},
                fld \in {<<"To", "ToHostId">>, <<"To", "FromHostId">>, <<"From", "FromHostId">>},
                opt \in {<<TRUE, <<>>>>, <<FALSE, <<>>>>, <<TRUE, <<2>>>>}} :
        q.filter # <<>> => q.node.dir = "To"}

GroupSegmentLens ==
    {l \in [DOMAIN GroupSlots -> 0..MaxGroupDocs] : l[1] + l[2] + l[3] <= MaxGroupDocs}

\* Intermediate outputs handed to merge_results directly.
GroupAggregates(kind) ==
    {AggAdd(kind, AggDefault(kind), 2), AggAdd(kind, AggDefault(kind), 3),
     AggAdd(kind, AggAdd(kind, AggDefault(kind), 2), 3)}

GroupMaps(kind) == UNION {[K -> GroupAggregates(kind)] : K \in SUBSET {1, 2}}

InitGroupSearch ==
    /\ op = "group"
    /\ query \in GroupQueries
    /\ \E len \in GroupSegmentLens :
           \E d1 \in [1..len[1] -> GroupDocValues], d2 \in [1..len[2] -> GroupDocValues],
              d3 \in [1..len[3] -> GroupDocValues] :
               index = GroupIndexOf(<<d1, d2, d3>>)
    /\ local_fruits = [s \in ShardIds |-> <<>>]
    /\ results = <<>>
    /\ stage = "collect"

InitGroupMerge ==
    /\ op = "group_merge"
    /\ query \in {q \in GroupQueries : /\ q.node.dir = "To" /\ q.group = "ToHostId"
                                       /\ q.skip_self_links /\ q.filter = <<>>}
    /\ index = <<>>
    /\ local_fruits = <<>>
    /\ results \in SeqsUpTo(GroupMaps(query.kind), 0, 2)
    /\ stage = "merge"

InitGroup ==
    /\ DijkstraIdle
    /\ ReadersIdle
    /\ InitGroupSearch \/ InitGroupMerge
    /\ fruit = <<>>
    /\ shard_fruits = <<>>
    /\ output = <<>>

\* One more replica of shard s answers with the fruit of its local phase.
GroupLocalCollect(s) ==
    /\ op = "group" /\ stage = "collect"
    /\ Len(local_fruits[s]) < Cardinality(ReplicasOf(s))
    /\ local_fruits' = [local_fruits EXCEPT ![s] = Append(@, GroupLocalFruit(query, s))]
    /\ UNCHANGED <<fvars, index, stage>>
    /\ UNCHANGED <<dvars, nvars>>

\* The fruits of the replicas of each shard are merged, then the shard fruits
\* are merged by the coordinator collector.
GroupMergeFruits ==
    /\ op = "group" /\ stage = "collect"
    /\ \A s \in ShardIds : local_fruits[s] # <<>>
    /\ LET shards == SetToSeq(ShardIds) IN
       fruit' = <<group_merge_fruits(group_coordinator_collector(query).kind,
                      [k \in DOMAIN shards |->
                          group_merge_fruits(group_collector(query).kind,
                                             local_fruits[shards[k]])])>>
    /\ stage' = "retrieve"
    /\ UNCHANGED <<op, query, shard_fruits, results, output, index, local_fruits>>
    /\ UNCHANGED <<dvars, nvars>>

\* filter_fruit_shards and retrieve for one shard.
GroupRetrieve(s) ==
    /\ op = "group" /\ stage = "retrieve"
    /\ s \notin DOMAIN shard_fruits
    /\ LET f == group_filter_fruit_shards(s, fruit[1]) IN
       /\ shard_fruits' = [x \in (DOMAIN shard_fruits) \cup {s} |->
                              IF x = s THEN f ELSE shard_fruits[x]]
       /\ results' = Append(results, group_retrieve(f))
    /\ stage' = IF (DOMAIN shard_fruits) \cup {s} = ShardIds THEN "merge" ELSE "retrieve"
    /\ UNCHANGED <<op, query, fruit, output, index, local_fruits>>
    /\ UNCHANGED <<dvars, nvars>>

\* Q::merge_results over the intermediate outputs.
GroupMergeResults ==
    /\ op \in {"group", "group_merge"} /\ stage = "merge"
    /\ output' = <<group_merge_results(query.kind, results)>>
    /\ stage' = "done"
    /\ UNCHANGED <<op, query, fruit, shard_fruits, results, index, local_fruits>>
    /\ UNCHANGED <<dvars, nvars>>

NextGroup ==
    \/ \E s \in ShardIds : GroupLocalCollect(s)
    \/ GroupMergeFruits
    \/ \E s \in ShardIds : GroupRetrieve(s)
    \/ GroupMergeResults

SpecGroup == InitGroup /\ [][NextGroup]_vars

----------------------------------------------------------------------------
\* Reference: the groups of a query by enumeration of the documents of the
\* whole index.

GroupIndexDocs ==
    UNION {Range(index[slot[1]][slot[2]]) : slot \in Range(GroupSlots)}

GroupMatchingDocs(q) ==
    {doc \in GroupIndexDocs :
        /\ FieldFirst(IF q.node.dir = "From" THEN "FromHostId" ELSE "ToHostId", doc) = q.node.id
        /\ q.skip_self_links => doc.from # doc.to
        /\ ~should_skip(q.filter, doc)}

DistinctValues(q) ==
    LET docs == GroupMatchingDocs(q) IN
    [group \in {FieldFirst(q.group, doc) : doc \in docs} |->
        {FieldFirst(q.value, doc) : doc \in {x \in docs : FieldFirst(q.group, x) = group}}]

SegmentFruits(q) ==
    [k \in DOMAIN GroupSlots |->
        GroupSegmentFruit(group_collector(q), group_tantivy_query(q),
                          index[GroupSlots[k][1]][GroupSlots[k][2]])]

Permute(seq, perm) == [i \in DOMAIN seq |-> seq[perm[i]]]

SubSeqOrEmpty(seq, a, b) == IF a > b THEN <<>> ELSE SubSeq(seq, a, b)

\* the sketch that has seen all inputs under a key: every register holds the
\* highest rank of the inputs.
MergeOfAll(fruits, group) ==
    [r \in Registers |->
        LET ranks == {fruits[i][group][r] : i \in {j \in DOMAIN fruits : group \in DOMAIN fruits[j]}}
        IN CHOOSE m \in ranks : \A x \in ranks : x <= m]

SlotPermutations == PermutationsOf(Len(GroupSlots))

MergeFruitsLaws(fruits) ==
    LET merged == group_merge_fruits("sketch", fruits) IN
    /\ DOMAIN merged = UNION {DOMAIN fruits[i] : i \in DOMAIN fruits}
    /\ \A group \in DOMAIN merged : merged[group] = MergeOfAll(fruits, group)
    /\ \A perm \in SlotPermutations :
           group_merge_fruits("sketch", Permute(fruits, perm)) = merged
    /\ \A k \in 0..Len(fruits) :
           group_merge_fruits("sketch",
               <<group_merge_fruits("sketch", SubSeqOrEmpty(fruits, 1, k)),
                 group_merge_fruits("sketch", SubSeqOrEmpty(fruits, k + 1, Len(fruits)))>>) = merged
    /\ \A i \in DOMAIN fruits :
           /\ group_merge_fruits("sketch", Append(fruits, fruits[i])) = merged
           /\ group_merge_fruits("sketch", <<fruits[i], fruits[i]>>)
                  = group_merge_fruits("sketch", <<fruits[i]>>)

\* C15: GroupSketchCollector::merge_fruits of the per-segment fruits has the
\* union of their keys, under each key the merge of all input sketches of the
\* key, and gives the same map for every permutation of the list, for every
\* grouping into partial merges and when a fruit is repeated; the fruit the
\* coordinator merged from the replica and shard fruits is that map.
C15_MergeFruitsOrderFree ==
    (op = "group" /\ query.kind = "sketch" /\ stage = "retrieve" /\ shard_fruits = <<>>) =>
        /\ fruit[1] = group_merge_fruits("sketch", SegmentFruits(query))
        /\ MergeFruitsLaws(SegmentFruits(query))

\* three segments hold different sketches under one group and the merged sketch
\* is none of them.
C15_Witness ==
    /\ op = "group" /\ query.kind = "sketch" /\ stage = "retrieve" /\ shard_fruits = <<>>
    /\ LET fruits == SegmentFruits(query) IN
       \E group \in DOMAIN fruit[1] :
           /\ \A i \in DOMAIN fruits :
                  group \in DOMAIN fruits[i] /\ fruit[1][group] # fruits[i][group]
           /\ \A i, j \in DOMAIN fruits : i # j => fruits[i][group] # fruits[j][group]

\* The fruit of the query when only the first replica of every shard answers.
SingleReplicaFruit ==
    LET shards == SetToSeq(ShardIds) IN
    group_merge_fruits(query.kind, [k \in DOMAIN shards |-> local_fruits[shards[k]][1]])

\* C16: the merge of the fruits of the replicas of a shard is the fruit of one
\* replica, the merged fruit and the final output of the query are those of a
\* search answered by one replica per shard, and filter_fruit_shards hands the
\* merged fruit unchanged to every shard.
C16_ReplicaOverlapDoesNotInflate ==
    op = "group" =>
        IF stage = "collect"
        THEN \A s \in ShardIds :
                 local_fruits[s] # <<>> =>
                     group_merge_fruits(query.kind, local_fruits[s]) = local_fruits[s][1]
        ELSE /\ fruit[1] = SingleReplicaFruit
             /\ \A s \in DOMAIN shard_fruits : shard_fruits[s] = fruit[1]
             /\ stage = "done" => output[1] = fruit[1]

\* both replicas of shard 1 answered, and every shard answered with groups
\* that hold values.
C16_Witness ==
    /\ op = "group" /\ stage = "done"
    /\ Len(local_fruits[1]) = 2
    /\ \A s \in ShardIds : DOMAIN local_fruits[s][1] # {}
    /\ \E group \in DOMAIN output[1] : output[1][group] \notin {AggDefault(query.kind)}
    /\ \E s \in ShardIds : output[1] # local_fruits[s][1]

\* C17: merge_results of a group-by query returns the map that holds every
\* group of any intermediate output with the union (merge) of the aggregates of
\* the group, the same for every permutation of the input vector, and the
\* empty map for an empty vector.
C17_MergeResultsReducesAllInputs ==
    (op \in {"group", "group_merge"} /\ stage = "done") =>
        /\ output[1] = group_merge_fruits(query.kind, results)
        /\ \A perm \in PermutationsOf(Len(results)) :
               group_merge_results(query.kind, Permute(results, perm)) = output[1]
        /\ results = <<>> => output[1] = <<>>

\* The aggregate that has seen exactly the values of a set.
RECURSIVE AggOfValues(_, _)
AggOfValues(kind, values) ==
    IF values = {} THEN AggDefault(kind)
    ELSE LET v == Min(values) IN AggAdd(kind, AggOfValues(kind, values \ {v}), v)

\* The matching, non-filtered edges of the index between two different hosts.
NonSelfLinks(q) ==
    {doc \in GroupIndexDocs :
        /\ doc.from # doc.to
        /\ (IF q.node.dir = "From" THEN doc.from ELSE doc.to) = q.node.id
        /\ ~should_skip(q.filter, doc)}

\* C18: a group-by query with skip_self_links = true (the default of new)
\* hands it to the index query in both directions, and its output counts the
\* edges between different hosts only: a group exists only for such an edge
\* and its aggregate has seen the values of such edges and nothing else.
C18_SelfLinksNotCounted ==
    (op = "group" /\ query.skip_self_links) =>
        /\ group_tantivy_query(query).skip_self_links
        /\ stage = "done" =>
               LET docs == NonSelfLinks(query) IN
               /\ DOMAIN output[1] = {FieldFirst(query.group, doc) : doc \in docs}
               /\ \A group \in DOMAIN output[1] :
                      output[1][group] =
                          AggOfValues(query.kind,
                              {FieldFirst(query.value, doc) :
                                  doc \in {x \in docs : FieldFirst(query.group, x) = group}})

\* forward links of a host that links to itself only, while another host
\* links to it: no group entry.
C18_Witness ==
    /\ op = "group" /\ stage = "done" /\ query.skip_self_links
    /\ query.node.dir = "From" /\ query.filter = <<>>
    /\ [from |-> 1, to |-> 1] \in GroupIndexDocs
    /\ [from |-> 2, to |-> 1] \in GroupIndexDocs
    /\ [from |-> 1, to |-> 2] \notin GroupIndexDocs
    /\ output[1] = <<>>

----------------------------------------------------------------------------
\* Claims about the loop of dijkstra_multi.

\* The positions of the history at which node_edges was called.
Expansions == {i \in DOMAIN pops : pops[i].did = "node_edges"}

ExpandedAtMostOnce ==
    \A i, j \in Expansions : pops[i].v = pops[j].v => i = j

ExpandedAtTrueDistance ==
    \A i \in Expansions : pops[i].cost = TrueDist(pops[i].v)

\* A step that pops an entry whose cost is greater than the recorded distance
\* of its node.
StalePop ==
    /\ pc = "loop" /\ queue # <<>>
    /\ Head(queue)[1] > GetDist(distances, Head(queue)[2])
    /\ pops' # pops

C20_DistancesMonotoneAndFinalAfterPop ==
    [][/\ \A n \in DOMAIN distances :
              n \in DOMAIN distances' /\ distances'[n] <= distances[n]
       /\ \A i \in DOMAIN pops' :
              pops'[i].did # "continue" =>
                  GetDist(distances', pops'[i].v) = GetDist(distances, pops'[i].v)]_vars

\* a run that expanded a node with a link back to a node expanded before it,
\* and recorded a node at distance 2.
C20_Witness ==
    /\ pc = "done"
    /\ \E i, j \in Expansions : i < j /\ <<pops[j].v, pops[i].v>> \in graph
    /\ \E n \in DOMAIN distances : distances[n] = 2

----------------------------------------------------------------------------
\* Termination of dijkstra_multi: the call runs on one thread and every
\* iteration of the loop that can be taken is taken.

InitTerminating ==
    /\ LinksIdle
    /\ ReadersIdle
    /\ graph \in {g \in SUBSET ((1..TermNodes) \X (1..TermNodes)) : Cardinality(g) <= TermEdges}
    /\ sources \in SeqsUpTo(1..TermNodes, 1, 2)
    /\ max_dist \in {<<>>} \cup {<<m>> : m \in 0..MaxMaxDist}
    /\ distances = <<>>
    /\ queue = <<>>
    /\ pc = "start"
    /\ pops = <<>>
    /\ failing = {}

SpecTerminating == InitTerminating /\ [][Next]_vars /\ WF_vars(Next)

\* queue.push calls so far: every entry pushed is in the queue or was popped.
Pushes == Len(queue) + Len(pops)

\* The nodes of the graph and the sources.
GraphNodes == {e[1] : e \in graph} \cup {e[2] : e \in graph} \cup Range(sources)

\* The loop has ended the way lines 76-102 allow: on the empty queue, or with
\* max_dist = m at the first popped entry that is not stale and costs more
\* than m.
EndsAsSpecified ==
    /\ \A i \in DOMAIN pops :
           (pops[i].did # "continue" /\ max_dist # <<>> /\ pops[i].cost > max_dist[1])
               => (pops[i].did = "return" /\ i = Len(pops) /\ pc = "done")
    /\ \A i \in DOMAIN pops :
           pops[i].did = "return" => (max_dist # <<>> /\ pops[i].cost > max_dist[1])
    /\ pc = "done" =>
           \/ queue = <<>>
           \/ pops # <<>> /\ pops[Len(pops)].did = "return"

\* C21: dijkstra_multi terminates on every graph, cycles and self-loops
\* included: it ends on the empty queue or, with max_dist = m, at the first
\* popped entry that is not stale and costs more than m; the queue pushes
\* number at most the sources plus the nodes.
C21_Terminates ==
    /\ <>(pc = "done")
    /\ [](EndsAsSpecified /\ Pushes <= Len(sources) + Cardinality(GraphNodes))

\* a finished run over a graph with a self-loop and a cycle through two nodes
\* in which every node was pushed.
C21_Witness ==
    /\ pc = "done"
    /\ \E a, b \in Nodes : a # b /\ {<<a, a>>, <<a, b>>, <<b, a>>} \subseteq graph
    /\ \E i, j \in Expansions : pops[i].v # pops[j].v
    /\ queue = <<>>

----------------------------------------------------------------------------
\* The nodes for which node_edges was called.
ExpandedNodes == {pops[i].v : i \in Expansions}

----------------------------------------------------------------------------
\* dijkstra_multi on long chains: paths around the largest u8.

\* The chain 1 -> 2 -> ... -> len.
Chain(len) == {<<i, i + 1>> : i \in 1..(len - 1)}

ChainLens == (U8_MAX - 1)..(U8_MAX + ChainExtra)

InitChain ==
    /\ LinksIdle
    /\ ReadersIdle
    /\ graph \in {Chain(len) : len \in ChainLens}
    /\ sources \in {<<n>> : n \in 1..2}
    /\ max_dist \in {<<>>, <<U8_MAX>>}
    /\ distances = <<>>
    /\ queue = <<>>
    /\ pc = "start"
    /\ pops = <<>>
    /\ failing = {}

SpecChain == InitChain /\ [][Next]_vars

\* The nodes of a chain and their hop distance from the source.
ChainNodes == 1..(Cardinality(graph) + 1)

ChainDist(n) == n - sources[1]

\* C29: the popped cost, every queued cost and every recorded distance are at
\* most 254, so cost + 1 never exceeds the largest u8; a node at true distance
\* 255 or more is never recorded, the nodes nearer than that are recorded with
\* their distance when the call returns.
C29_NoU8Overflow ==
    /\ \A i \in DOMAIN pops : pops[i].cost + 1 <= U8_MAX
    /\ \A i \in DOMAIN queue : queue[i][1] + 1 <= U8_MAX
    /\ \A n \in DOMAIN distances : distances[n] + 1 <= U8_MAX
    /\ \A n \in ChainNodes : ChainDist(n) >= U8_MAX => n \notin DOMAIN distances
    /\ pc = "done" =>
           \A n \in ChainNodes :
               (ChainDist(n) >= 0 /\ ChainDist(n) < U8_MAX) =>
                   (n \in DOMAIN distances /\ distances[n] = ChainDist(n))

\* a returned run on a chain with a node 255 hops and a node 254 hops from the
\* source: the first is absent, the second recorded.
C29_Witness ==
    /\ pc = "done"
    /\ \E n \in ChainNodes : ChainDist(n) = U8_MAX /\ n \notin DOMAIN distances
    /\ \E n \in DOMAIN distances : distances[n] = U8_MAX - 1
    /\ \E i \in Expansions : pops[i].cost = U8_MAX - 1

----------------------------------------------------------------------------
\* Webgraph::raw_distances and its variants: dijkstra_multi from one source
\* with link queries that may fail.

\* One node more than Nodes: a source, a node whose query fails, a node behind
\* it and a node beside it.
NodesOfFailing == 1..(NumNodes + 1)

InitFailing ==
    /\ LinksIdle
    /\ ReadersIdle
    /\ graph \in {g \in SUBSET (NodesOfFailing \X NodesOfFailing) : Cardinality(g) <= MaxEdges}
    /\ sources = <<1>>
    /\ max_dist \in {<<>>, <<MaxMaxDist>>}
    /\ failing \in {f \in SUBSET NodesOfFailing : Cardinality(f) <= 1}
    /\ distances = <<>>
    /\ queue = <<>>
    /\ pc = "start"
    /\ pops = <<>>

SpecFailing == InitFailing /\ [][Next]_vars

\* The links that the queries of the run deliver.
DeliveredLinks == {e \in graph : e[1] \notin failing}

RECURSIVE ReachWithinIn(_, _)
ReachWithinIn(g, k) ==
    IF k = 0 THEN Range(sources)
    ELSE LET R == ReachWithinIn(g, k - 1) IN R \cup {e[2] : e \in {x \in g : x[1] \in R}}

TrueDistIn(g, n) == Min({k \in 0..NumNodes : n \in ReachWithinIn(g, k)})

\* C30: a link query that fails does not end the computation: the node is
\* expanded as a node without links (nothing pushed, nothing recorded), the
\* loop goes on with the rest of the queue, and the map returned without
\* max_dist is the distance map of the graph without the links of the failed
\* nodes; the nodes reachable only through them are absent.
C30_FailedQueryIsNoEdges ==
    /\ \A i \in Expansions :
           pops[i].v \in failing =>
               \A n \in DOMAIN distances : distances[n] = pops[i].cost + 1 =>
                   \E j \in Expansions : /\ pops[j].cost = pops[i].cost
                                         /\ <<pops[j].v, n>> \in DeliveredLinks
    /\ (pc = "done" /\ max_dist = <<>>) =>
           /\ queue = <<>>
           /\ DOMAIN distances = ReachWithinIn(DeliveredLinks, NumNodes)
           /\ \A n \in DOMAIN distances : distances[n] = TrueDistIn(DeliveredLinks, n)

\* a returned run in which the query of a node with links failed, a node
\* reachable only through it is absent, and another node was expanded after it.
C30_Witness ==
    /\ pc = "done" /\ max_dist = <<>>
    /\ \E i, j \in Expansions :
           /\ i < j
           /\ pops[i].v \in failing
           /\ \E n \in NodesOfFailing : <<pops[i].v, n>> \in graph /\ n \notin DOMAIN distances

----------------------------------------------------------------------------
\* retrieve of BacklinksQuery over segments with missing values and columns.

MaxFetchDocs == 3

FetchFields == {"FromId", "RelFlags", "SortScore"}

\* An edge document that holds all three values, or lacks one of them.
FetchDocValues ==
    {[score |-> sc, host |-> 1, missing |-> {}] : sc \in Scores}
        \cup {[score |-> 1, host |-> 1, missing |-> {f}] : f \in FetchFields}

\* At most MaxFetchDocs documents, not all of them in one segment.
FetchSegmentLens ==
    {l \in [SegmentOrds -> 0..(MaxFetchDocs - 1)] : l[0] + l[1] <= MaxFetchDocs}

\* Every segment holds the three columns, or segment 1 lacks one of them.
FetchColumns ==
    {[g \in SegmentsOf(1) |-> FetchFields]}
        \cup {[g \in SegmentsOf(1) |-> IF g = 1 THEN FetchFields \ {f} ELSE FetchFields] :
                 f \in FetchFields}

\* The documents of segments 0 and 1 of shard 1.
FetchAddresses ==
    {Address(1, g, d) : g \in SegmentOrds, d \in 0..(MaxFetchDocs - 1)}

IndexAddresses ==
    {a \in FetchAddresses : a.doc_id < Len(index[1][a.segment_ord])}

\* The fruit handed to retrieve holds the documents of the index in any order.
InitFetch ==
    /\ DijkstraIdle
    /\ op = "fetch"
    /\ query = [gran |-> "page", kind |-> "small", limit |-> Unlimited]
    /\ \E len \in FetchSegmentLens :
           \E d0 \in [1..len[0] -> FetchDocValues],
              d1 \in [1..len[1] -> FetchDocValues] :
               index = IndexOf(<<d0, d1, <<>>, <<>>>>)
    /\ columns \in FetchColumns
    /\ \E p \in PermutationsOf(Len(index[1][0]) + Len(index[1][1])) :
           LET n0 == Len(index[1][0])
               ids == [i \in DOMAIN p |-> IF i <= n0 THEN Address(1, 0, i - 1)
                                          ELSE Address(1, 1, i - 1 - n0)]
           IN fruit = [i \in DOMAIN p |-> <<0, ids[p[i]]>>]
    /\ shard_fruits = <<>>
    /\ results = <<>>
    /\ output = <<>>
    /\ local_fruits = <<>>
    /\ stage = "none"
    /\ opened = <<>>
    /\ cache = <<>>
    /\ threads = <<>>

\* BacklinksQuery::retrieve(searcher, fruit): the addresses of the fruit go to
\* fetch_small_edges, which sorts them and runs its loop; a panic of the loop
\* ends retrieve (ok FALSE), otherwise the triples are mapped to
\* (sort_score, SmallEdge) and returned as Ok(edges).
FetchRetrieve ==
    /\ op = "fetch"
    /\ output = <<>>
    /\ \E sorted \in SortUnstableBySegmentOrd(FruitAddresses(query, fruit)) :
           LET r == fetch_small_edges(sorted, "FromId") IN
           /\ opened' = r.opened
           /\ output' = IF r.panicked THEN <<[ok |-> FALSE, edges |-> <<>>]>>
                        ELSE <<[ok |-> TRUE, edges |-> retrieve(query, sorted)]>>
    /\ UNCHANGED <<op, query, fruit, shard_fruits, results, pvars>>
    /\ UNCHANGED <<dvars, columns, cache, threads>>

NextFetch == FetchRetrieve

SpecFetch == InitFetch /\ [][NextFetch]_vars

\* The addresses given to fetch_small_edges.
InputAddresses == Range(FruitAddresses(query, fruit))

\* The segments of the input that lack one of the three columns.
SegmentsWithoutColumn ==
    {g \in {a.segment_ord : a \in InputAddresses} : columns[g] # FetchFields}

\* The edge retrieve makes of a document from the document's own values.
OwnEdge(a) ==
    <<DocAt(a).score, [from |-> PageIdOf(a), to |-> QueryNode, rel_flags |-> 0]>>

\* C23: over segments that hold the three columns, fetch_small_edges returns
\* Ok with exactly one triple per input address that has a value in all three
\* columns, built from that document's own values, and nothing for an address
\* that lacks a value.
C23_MissingValueSkipsDocument ==
    (op = "fetch" /\ output # <<>> /\ SegmentsWithoutColumn = {}) =>
        LET complete == {a \in InputAddresses : DocAt(a).missing = {}} IN
        /\ output[1].ok
        /\ Len(output[1].edges) = Cardinality(complete)
        /\ Range(output[1].edges) = {OwnEdge(a) : a \in complete}

\* a call over three documents that returned one edge and skipped a document
\* without sort score and a document without neighbour id.
C23_Witness ==
    /\ op = "fetch" /\ output # <<>> /\ SegmentsWithoutColumn = {}
    /\ Len(output[1].edges) = 1
    /\ \E a, b \in InputAddresses :
           /\ DocAt(a).missing = {"SortScore"}
           /\ DocAt(b).missing = {"FromId"}

\* C24: when a segment of the fruit has no column for one of the three fields,
\* retrieve does not fail: the documents of that segment contribute no edge
\* and the documents of the other segments contribute theirs.
C24_MissingColumnIsNoData ==
    (op = "fetch" /\ output # <<>> /\ SegmentsWithoutColumn # {}) =>
        /\ output[1].ok
        /\ Range(output[1].edges) =
               {OwnEdge(a) : a \in {x \in InputAddresses :
                                       /\ x.segment_ord \notin SegmentsWithoutColumn
                                       /\ DocAt(x).missing = {}}}

\* C27: the three column accessors are opened exactly once per distinct
\* segment ordinal of the input, for any input order: no segment is opened
\* twice, and a call that returns has opened every segment of its input.
C27_ColumnsOpenedOncePerSegment ==
    (op = "fetch" /\ output # <<>>) =>
        /\ \A i, j \in DOMAIN opened : opened[i] = opened[j] => i = j
        /\ Range(opened) \subseteq {a.segment_ord : a \in InputAddresses}
        /\ output[1].ok =>
               Range(opened) = {a.segment_ord : a \in InputAddresses}

\* a returned call whose input alternates between two segments: a document
\* of segment 1, then one of segment 0, then one of segment 1 again.
C27_Witness ==
    /\ op = "fetch" /\ output # <<>> /\ output[1].ok
    /\ Len(fruit) = 3
    /\ fruit[1][2].segment_ord = 1
    /\ fruit[2][2].segment_ord = 0
    /\ fruit[3][2].segment_ord = 1
    /\ Len(opened) = 2

----------------------------------------------------------------------------
\* The segment collector of the group-by queries over documents that may lack
\* a value: collect for the documents of one segment, then harvest.

HostFields == {"FromHostId", "ToHostId"}

\* An edge document with both host values, or lacking one of them.
CollectDocValues ==
    {[from |-> f, to |-> 1, missing |-> m] :
        f \in {1, 2}, m \in {{}, {"FromHostId"}, {"ToHostId"}}}

\* The collectors: sketch or exact, grouped on either host field, with or
\* without the filter on the source host.
SegmentCollectors ==
    [kind : {"sketch", "exact"}, group_field : HostFields,
     value_field : HostFields, warmed_column_fields : {TRUE},
     filter : {<<>>, <<2>>}]

\* self.group.first(doc) / self.value.first(doc): Some(v) as <<v>>, None as <<>>
GroupColumnFirst(field, doc) ==
    IF field \in doc.missing THEN <<>> ELSE <<FieldFirst(field, doc)>>

\* collect reads both columns with .first(doc).unwrap(), once the filter let
\* the document pass: a None panics.
collect_panics(c, doc) ==
    /\ ~should_skip(c.filter, doc)
    /\ \/ GroupColumnFirst(c.group_field, doc) = <<>>
       \/ GroupColumnFirst(c.value_field, doc) = <<>>

\* for_segment has built the segment collector: its groups map (fruit) is
\* empty and no document was offered yet (results).
InitCollect ==
    /\ DijkstraIdle
    /\ ReadersIdle
    /\ op = "collect"
    /\ query \in {c \in SegmentCollectors : c.value_field = OtherField(c.group_field)}
    /\ \E n \in 0..MaxGroupDocs :
           \E docs \in [1..n -> CollectDocValues] :
               index = GroupIndexOf(<<docs, <<>>, <<>>>>)
    /\ fruit = <<>>
    /\ results = <<>>
    /\ shard_fruits = <<>>
    /\ output = <<>>
    /\ local_fruits = <<>>
    /\ stage = "collect"

\* GroupSketchSegmentCollector::collect (GroupExactSegmentCollector::collect)
\* for the next document of the segment.
Collect ==
    /\ op = "collect"
    /\ stage = "collect"
    /\ Len(results) < Len(index[1][0])
    /\ LET doc == index[1][0][Len(results) + 1] IN
       /\ results' = Append(results, doc)
       /\ IF collect_panics(query, doc)
          THEN /\ stage' = "panicked"
               /\ UNCHANGED fruit
          ELSE /\ fruit' = group_collect(query, fruit, doc)
               /\ UNCHANGED stage
    /\ UNCHANGED <<op, query, shard_fruits, output, index, local_fruits>>
    /\ UNCHANGED <<dvars, nvars>>

\* harvest after the last document.
Harvest ==
    /\ op = "collect"
    /\ stage = "collect"
    /\ Len(results) = Len(index[1][0])
    /\ output' = <<fruit>>
    /\ stage' = "done"
    /\ UNCHANGED <<op, query, fruit, shard_fruits, results, index, local_fruits>>
    /\ UNCHANGED <<dvars, nvars>>

NextCollect == Collect \/ Harvest

SpecCollect == InitCollect /\ [][NextCollect]_vars

\* The groups map made of the documents that pass the filter and hold both
\* values, in the order they were offered.
RECURSIVE GroupsOfComplete(_, _, _)
GroupsOfComplete(c, groups, docs) ==
    IF docs = <<>> THEN groups
    ELSE LET doc == Head(docs) IN
         IF should_skip(c.filter, doc) \/ doc.missing # {}
         THEN GroupsOfComplete(c, groups, Tail(docs))
         ELSE GroupsOfComplete(c,
                  MapInsert(groups, FieldFirst(c.group_field, doc),
                      AggAdd(c.kind, EntryOrDefault(c.kind, groups, FieldFirst(c.group_field, doc)),
                             FieldFirst(c.value_field, doc))),
                  Tail(docs))

\* C25: a document that passes the filter but has no value in the group or the
\* value column is not fatal and leaves the groups map unchanged, and so does
\* a document the filter skips: collection continues, and the groups map holds
\* what the documents with both values that pass the filter put into it.
C25_MissingValueIsNonFatal ==
    op = "collect" =>
        /\ stage # "panicked"
        /\ fruit = GroupsOfComplete(query, <<>>, results)

\* While no document that passes the filter lacked a value, a document the
\* filter skips leaves the groups map unchanged.
SkippedDocumentLeavesGroups ==
    (op = "collect" /\ \A i \in DOMAIN results :
                           should_skip(query.filter, results[i]) \/ results[i].missing = {}) =>
        /\ stage # "panicked"
        /\ fruit = GroupsOfComplete(query, <<>>, results)

----------------------------------------------------------------------------
\* DefaultDocumentScorer: for_segment, then score for documents of the segment.

\* tantivy::TERMINATED, the doc id a DocSet returns at its end
TERMINATED == 2147483647

\* The f64 scores a document may store
StoredScores == 0..7

\* `as Score`: f64 to f32, rounded to the nearest representable value, ties to
\* even. The Score of the model keeps two significant bits: 5 and 7 are not
\* representable and go to 4 and 8.
AsScore(x) == IF x = 5 THEN 4 ELSE IF x = 7 THEN 8 ELSE x

ScorerDocValues ==
    {[score |-> v, host |-> 1, missing |-> {}] : v \in StoredScores}
        \cup {[score |-> 0, host |-> 1, missing |-> {"SortScore"}]}

\* A scorer is always built, also for a segment without the column.
scorer_for_segment_NoError(g) == [ok |-> TRUE]

\* DefaultDocumentScorer::for_segment: .f64(SortScore).ok_or(FieldNotFound)?
scorer_for_segment(g) ==
    IF HasColumn(g, "SortScore") THEN [ok |-> TRUE]
    ELSE [ok |-> FALSE, err |-> "FieldNotFound"]

\* DefaultDocumentScorer::score
scorer_score(a) ==
    IF a.doc_id = TERMINATED THEN 0
    ELSE LET v == ColumnFirst("SortScore", a)
         IN AsScore(IF v = <<>> THEN 0 ELSE v[1])

\* Segment 0 of shard 1 with up to MaxFetchDocs documents, with or without
\* the SortScore column (a segment without the column holds no score value).
InitScorer ==
    /\ DijkstraIdle
    /\ op = "score"
    /\ query = <<>>
    /\ columns \in {[g \in SegmentsOf(1) |-> c] : c \in {{"SortScore"}, {}}}
    /\ \E n \in 0..MaxFetchDocs :
           \E docs \in [1..n -> ScorerDocValues] :
               /\ columns[0] = {} => \A i \in 1..n : docs[i].missing # {}
               /\ index = IndexOf(<<docs, <<>>, <<>>, <<>>>>)
    /\ fruit = <<>>
    /\ shard_fruits = <<>>
    /\ results = <<>>
    /\ output = <<>>
    /\ local_fruits = <<>>
    /\ stage = "for_segment"
    /\ opened = <<>>
    /\ cache = <<>>
    /\ threads = <<>>

\* D::for_segment(segment, column_fields): the scorer, or the error.
ForSegment ==
    /\ op = "score"
    /\ stage = "for_segment"
    /\ stage' = IF scorer_for_segment(0).ok THEN "scorer" ELSE scorer_for_segment(0).err
    /\ UNCHANGED <<fvars, index, local_fruits>>
    /\ UNCHANGED <<dvars, nvars>>

\* scorer.score(doc) for a document of the segment or for TERMINATED; the
\* call and its result are kept in output.
Score ==
    /\ op = "score"
    /\ stage = "scorer"
    /\ \E doc \in (0..(Len(index[1][0]) - 1)) \cup {TERMINATED} :
           output' = <<[doc |-> doc, score |-> scorer_score(Address(1, 0, doc))]>>
    /\ UNCHANGED <<op, query, fruit, shard_fruits, results, pvars>>
    /\ UNCHANGED <<dvars, nvars>>

NextScorer == ForSegment \/ Score

SpecScorer == InitScorer /\ [][NextScorer]_vars

\* C26: for_segment returns FieldNotFound and builds no scorer when the
\* segment has no SortScore column, and builds one otherwise; score(doc) is 0
\* for TERMINATED and for a document without a score value, and otherwise the
\* stored score of the document as a Score.
C26_MissingColumnFailsMissingValueIsZero ==
    (op = "score" /\ stage # "for_segment") =>
        /\ stage = (IF "SortScore" \in columns[0] THEN "scorer" ELSE "FieldNotFound")
        /\ stage = "FieldNotFound" => output = <<>>
        /\ output # <<>> =>
               LET doc == output[1].doc IN
               output[1].score =
                   IF doc = TERMINATED THEN 0
                   ELSE IF "SortScore" \in index[1][0][doc + 1].missing THEN 0
                   ELSE AsScore(index[1][0][doc + 1].score)

\* a segment without the column, for which for_segment has returned the error
C26_WitnessMissingColumn ==
    /\ op = "score" /\ stage = "FieldNotFound"
    /\ Len(index[1][0]) > 0

\* a scorer that returned 0 for a document without a value, where another
\* document of the segment stores a score that is not 0
C26_Witness ==
    /\ op = "score" /\ stage = "scorer" /\ output # <<>>
    /\ output[1].doc # TERMINATED
    /\ "SortScore" \in index[1][0][output[1].doc + 1].missing
    /\ output[1].score = 0
    /\ \E i \in DOMAIN index[1][0] : index[1][0][i].missing = {} /\ index[1][0][i].score > 0

----------------------------------------------------------------------------
\* SegmentReader::inverted_index(field) called from several threads on clones
\* of one SegmentReader: the clones share inv_idx_reader_cache, an
\* Arc<RwLock<HashMap<Field, Arc<InvertedIndexReader>>>>.

NumThreads == 3

Threads == 1..NumThreads

\* Fields 1 and 2 are indexed and have postings in the segment; field 3 has
\* none (postings_composite.open_read(field) is None).
ReaderFields == {1, 2, 3}

FieldsWithPostings == {1, 2}

\* HashMap::insert keeps the other entries and replaces the entry of the key.
\* Here the insert drops the entries of the other fields.
cache_insert_Evict(map, field, reader) == [k \in {field} |-> reader]

cache_insert(map, field, reader) == MapInsert(map, field, reader)

\* SegmentReader::open has made the reader: the cache is empty and unlocked,
\* and no thread has called yet.
InitCache ==
    /\ DijkstraIdle
    /\ LinksIdle
    /\ columns = <<>>
    /\ opened = <<>>
    /\ cache = [map |-> <<>>, readers |-> {}, writer |-> <<>>]
    /\ threads = [t \in Threads |->
                     [pc |-> "idle", field |-> 0, reader |-> <<>>, result |-> <<>>]]

\* Thread t calls inverted_index(field) on its clone of the reader.
Call(t, field) ==
    /\ threads[t].pc = "idle"
    /\ threads' = [threads EXCEPT ![t].pc = "read", ![t].field = field]
    /\ UNCHANGED <<dvars, lvars, columns, opened, cache>>

\* self.inv_idx_reader_cache.read(): granted while no writer holds the lock.
AcquireRead(t) ==
    /\ threads[t].pc = "read"
    /\ cache.writer = <<>>
    /\ cache' = [cache EXCEPT !.readers = @ \cup {t}]
    /\ threads' = [threads EXCEPT ![t].pc = "get"]
    /\ UNCHANGED <<dvars, lvars, columns, opened>>

\* .get(&field) under the read lock: a hit returns a clone of the cached Arc;
\* either way the guard is dropped at the end of the `if let`.
Get(t) ==
    /\ threads[t].pc = "get"
    /\ cache' = [cache EXCEPT !.readers = @ \ {t}]
    /\ threads' =
           IF threads[t].field \in DOMAIN cache.map
           THEN [threads EXCEPT ![t].pc = "returned",
                                ![t].result = <<cache.map[threads[t].field]>>]
           ELSE [threads EXCEPT ![t].pc = "open"]
    /\ UNCHANGED <<dvars, lvars, columns, opened>>

\* Outside the lock: a field without postings returns an empty reader, which
\* is not cached; otherwise the thread opens its own reader of the field.
Open(t) ==
    /\ threads[t].pc = "open"
    /\ threads' =
           IF threads[t].field \notin FieldsWithPostings
           THEN [threads EXCEPT ![t].pc = "returned",
                                ![t].result = <<[field |-> threads[t].field,
                                                 opener |-> t, empty |-> TRUE]>>]
           ELSE [threads EXCEPT ![t].pc = "write",
                                ![t].reader = <<[field |-> threads[t].field,
                                                 opener |-> t, empty |-> FALSE]>>]
    /\ UNCHANGED <<dvars, lvars, columns, opened, cache>>

\* self.inv_idx_reader_cache.write(): granted while nobody holds the lock.
AcquireWrite(t) ==
    /\ threads[t].pc = "write"
    /\ cache.writer = <<>>
    /\ cache.readers = {}
    /\ cache' = [cache EXCEPT !.writer = <<t>>]
    /\ threads' = [threads EXCEPT ![t].pc = "insert"]
    /\ UNCHANGED <<dvars, lvars, columns, opened>>

\* .insert(field, Arc::clone(&inv_idx_reader)) under the write lock, the guard
\* is dropped at the end of the statement, Ok(inv_idx_reader) is returned.
Insert(t) ==
    /\ threads[t].pc = "insert"
    /\ cache' = [cache EXCEPT !.map = cache_insert(@, threads[t].field, threads[t].reader[1]),
                              !.writer = <<>>]
    /\ threads' = [threads EXCEPT ![t].pc = "returned", ![t].result = threads[t].reader]
    /\ UNCHANGED <<dvars, lvars, columns, opened>>

\* The steps of a call that is under way.
Step(t) == AcquireRead(t) \/ Get(t) \/ Open(t) \/ AcquireWrite(t) \/ Insert(t)

NextCache ==
    \/ \E t \in Threads, field \in ReaderFields : Call(t, field)
    \/ \E t \in Threads : AcquireRead(t)
    \/ \E t \in Threads : Get(t)
    \/ \E t \in Threads : Open(t)
    \/ \E t \in Threads : AcquireWrite(t)
    \/ \E t \in Threads : Insert(t)

\* Every thread that can take a step of its call eventually takes one.
SpecCache ==
    InitCache /\ [][NextCache]_vars /\ \A t \in Threads : WF_vars(Step(t))

\* The cache loses no field in a step.
CacheAppendOnly == DOMAIN cache.map \subseteq DOMAIN cache'.map

\* The cache holds for a field a reader of that field, and every call that
\* has returned holds a reader of the field it asked for.
ReadersUsable ==
    /\ \A f \in DOMAIN cache.map : cache.map[f].field = f /\ ~cache.map[f].empty
    /\ \A t \in Threads :
           threads[t].pc = "returned" =>
               /\ threads[t].result # <<>>
               /\ threads[t].result[1].field = threads[t].field
               /\ threads[t].result[1].empty = (threads[t].field \notin FieldsWithPostings)

====
